---- MODULE Spec2Model ----
(***************************************************************************)
(* Storefront product page (tier resolution, variant distribution, the    *)
(* effect that loads the product), product media manager (upload / crop /  *)
(* video / featured item), the image gallery of the product page, YouTube  *)
(* link parsing, and the admin users page (filters, selection, per-row and *)
(* bulk actions against the remote table).                                 *)
(*                                                                         *)
(* Each behaviour follows one mounted component instance; `mounted` says   *)
(* which one.  The components share no state, so a behaviour of the whole  *)
(* program restricted to one component is a behaviour of that component.   *)
(*                                                                         *)
(* JavaScript values: `undefined` strings are UNDEF, `undefined` / null    *)
(* numbers are NONE, an absent optional number of a tier is 0 (the code    *)
(* tests these with `!x` and `x || y`, which treat 0 and absent alike).    *)
(* Strings are TLA+ strings; Len, SubSeq and \o work on them character by  *)
(* character.                                                              *)
(***************************************************************************)
EXTENDS Integers, Sequences, FiniteSets, TLC

VARIABLES
  mounted,            \* which component instance this behaviour follows
  \* ---- ProductDetailsPage (both variants) ----
  product,            \* the loaded product record
  priceTiers,         \* result of useTieredPricing ( <<>> until loaded )
  quantity,
  distributionMode,
  distributionItems,  \* sequence of [color, size, quantity]
  newItemColor,
  newItemSize,
  newItemQuantity,
  selectedColor,
  selectedSize,
  cartCalls,          \* addToCart calls issued by the last handler run
  \* ---- ProductImageManager ----
  images,             \* the media list (prop; onChange replaces it)
  showCropper,
  selectedFile,       \* <<>> for null, <<file>> otherwise
  pendingFiles,
  currentFileIndex,   \* 0-based, as in the code
  imageToRecrop,      \* <<>> for null, <<item>> otherwise
  showVideoDialog,
  youtubeUrl,
  clock,              \* Date.now(): later events read later values
  \* ---- youtubeUtils, called on its own ----
  urlParts,           \* the text handed to extractYouTubeVideoId, in pieces
  extracted,          \* <<>> before the call, <<result>> after it
  \* ---- UsersManagementPage ----
  users,              \* the fetched user list
  displayedUsers,     \* what the filter effect last set
  selectedUsers,      \* set of user ids
  loading,
  searchTerm,
  roleFilter,
  statusFilter,
  planFilter,
  table,              \* the remote users table, newest row first
  calls,              \* handler runs suspended at an await
  toasts,             \* notifications shown by the last step
  \* ---- ProductDetailsPage, loading the product ----
  details,            \* productId (route), product, corretor, loading,
                      \* error, and whether the component is still mounted
  runs,               \* fetchProductDetails runs suspended at an await
  dom,                \* meta tags and class of the document element
  setterCalls,        \* state setters called by the last step, in order
  \* ---- ImageGallery ----
  media,              \* the media prop
  currentMainIndex,   \* 0-based, as in the code
  selectedVideoUrl,
  \* ---- all components ----
  lastOp              \* [name, outcome, qty, files] of the last handler run
                      \* of a product page or the media manager

pageVars == <<product, priceTiers, quantity, distributionMode, distributionItems,
              newItemColor, newItemSize, newItemQuantity, selectedColor,
              selectedSize>>

mediaVars == <<images, showCropper, selectedFile, pendingFiles,
               currentFileIndex, imageToRecrop, showVideoDialog, youtubeUrl,
               clock>>

utilVars == <<urlParts, extracted>>

usersVars == <<users, displayedUsers, selectedUsers, loading, searchTerm,
               roleFilter, statusFilter, planFilter, table, calls, toasts>>

loadVars == <<details, runs, dom, setterCalls>>

galleryVars == <<media, currentMainIndex, selectedVideoUrl>>

\* state of the components a page or media manager behaviour does not touch
elsewhere == <<utilVars, usersVars, loadVars, galleryVars>>

\* state of the components a users page behaviour does not touch
besidesUsers ==
  <<mounted, pageVars, cartCalls, mediaVars, utilVars, loadVars, galleryVars>>

\* state of the components a product load behaviour does not touch
besidesLoad ==
  <<mounted, pageVars, cartCalls, mediaVars, utilVars, usersVars, galleryVars>>

vars == <<mounted, pageVars, cartCalls, mediaVars, elsewhere, lastOp>>

----------------------------------------------------------------------------
\* Bounds of the model

\* largest requested quantity / item quantity the inputs offer
MaxQuantity == 3

\* the maxImages prop of the media manager under study
maxImages == 2

\* last value of Date.now() at which the model still adds media
MaxClock == 4

\* runs of asynchronous handlers of one page that may be suspended at an
\* await at the same time
MaxInFlight == 2

----------------------------------------------------------------------------
\* JavaScript values

UNDEF == "<undefined>"
NONE == -1

\* `!!s` for a string-or-undefined value
Truthy(s) == s # UNDEF /\ s # ""

\* s.trim().length > 0, for strings whose only whitespace is the space
NonBlank(s) == \E i \in 1..Len(s) : SubSeq(s, i, i) # " "

RECURSIVE SumQuantity(_)
\* items.reduce((sum, item) => sum + item.quantity, 0)
SumQuantity(items) ==
  IF items = <<>> THEN 0 ELSE Head(items).quantity + SumQuantity(Tail(items))

----------------------------------------------------------------------------
\* Products and tier lists the model draws from

Tier(mn, mx, unit, disc) ==
  [min_quantity |-> mn, max_quantity |-> mx, unit_price |-> unit,
   discounted_unit_price |-> disc]

Product(st, pr, dpr, tiered, cols, szs) ==
  [status |-> st, price |-> pr, discounted_price |-> dpr,
   has_tiered_pricing |-> tiered, colors |-> cols, sizes |-> szs]

Products ==
  { Product("disponivel", 9, 7, TRUE, <<"red", "blue">>, <<"P">>),
    Product("disponivel", 9, 0, TRUE, <<"", "red">>, <<>>),
    Product("disponivel", 9, 7, FALSE, <<>>, <<"P">>),
    Product("disponivel", 9, 0, TRUE, <<>>, <<" ">>),
    Product("vendido", 9, 0, TRUE, <<"red">>, <<>>),
    Product("disponivel", 0, 0, FALSE, <<"red">>, <<>>) }

\* tier lists as the pricing hook delivers them: ascending min_quantity,
\* contiguous bands, the last band bounded or not
TierLists ==
  { <<Tier(1, 2, 5, 0), Tier(3, 0, 4, 3)>>,
    <<Tier(1, 1, 6, 0), Tier(2, 2, 5, 4)>>,
    <<Tier(2, 2, 5, 0), Tier(3, 0, 4, 0)>>,
    <<Tier(3, 0, 4, 0)>> }

----------------------------------------------------------------------------
\* Derived values of a render

hasColors == \E i \in 1..Len(product.colors) :
               Truthy(product.colors[i]) /\ NonBlank(product.colors[i])

hasSizes == \E i \in 1..Len(product.sizes) :
              Truthy(product.sizes[i]) /\ NonBlank(product.sizes[i])

hasOptions == hasColors \/ hasSizes

isAvailable == product.status = "disponivel"

hasPrice == product.price > 0

distributedQuantity == SumQuantity(distributionItems)

remainingQuantity == quantity - distributedQuantity

isDistributionComplete == distributedQuantity = quantity

isDistributionOverflow == distributedQuantity > quantity

----------------------------------------------------------------------------
\* Tier resolution

\* index of the first tier with q >= min_quantity, 0 when there is none:
\* priceTiers.find(tier => q >= tier.min_quantity)
FindTier(T, q) ==
  IF \E i \in 1..Len(T) : q >= T[i].min_quantity
  THEN CHOOSE i \in 1..Len(T) :
         /\ q >= T[i].min_quantity
         /\ \A j \in 1..(i - 1) : ~(q >= T[j].min_quantity)
  ELSE 0

\* the unit price handleAddToCart and the inline onAddToCart callback of
\* ProductDetailsPage.tsx compute:
\*   has_tiered_pricing && priceTiers.length > 0
\*     ? priceTiers.find(...)?.unit_price || product.price : undefined
FindUnitPrice(p, T, q) ==
  IF p.has_tiered_pricing /\ Len(T) > 0
  THEN LET i == FindTier(T, q) IN
       IF i # 0 /\ T[i].unit_price # 0 THEN T[i].unit_price ELSE p.price
  ELSE NONE

RECURSIVE InsertTier(_, _)
\* insert t into a list sorted by min_quantity, after its equals (stable)
InsertTier(t, sorted) ==
  IF sorted = <<>> THEN <<t>>
  ELSE IF t.min_quantity < Head(sorted).min_quantity THEN <<t>> \o sorted
       ELSE <<Head(sorted)>> \o InsertTier(t, Tail(sorted))

RECURSIVE SortTiers(_)
\* [...priceTiers].sort((a, b) => a.min_quantity - b.min_quantity)
SortTiers(T) ==
  IF T = <<>> THEN <<>>
  ELSE InsertTier(T[Len(T)], SortTiers(SubSeq(T, 1, Len(T) - 1)))

\* tier => quantity >= tier.min_quantity &&
\*         (!tier.max_quantity || quantity <= tier.max_quantity)
TierApplies(t, q) ==
  q >= t.min_quantity /\ (t.max_quantity = 0 \/ q <= t.max_quantity)

\* sortedTiers.filter(...).pop(): the applicable tiers, <<>> or the last one
ApplicableTier(T, q) ==
  LET matching == SelectSeq(SortTiers(T), LAMBDA t : TierApplies(t, q)) IN
  IF matching = <<>> THEN <<>> ELSE <<matching[Len(matching)]>>

\* the unit price handleAddToCart of the QuickPurchasePanel-only page computes
SortedUnitPrice(p, T, q) ==
  IF p.has_tiered_pricing /\ Len(T) > 0 /\ ApplicableTier(T, q) # <<>>
  THEN LET t == ApplicableTier(T, q)[1] IN
       IF t.discounted_unit_price # 0 THEN t.discounted_unit_price
       ELSE t.unit_price
  ELSE NONE

----------------------------------------------------------------------------
\* ProductDetailsPage: state after mount, effects, handlers

\* lastOp: the handler that ran last, how it ended, the quantity it was
\* asked for (0 when the handler takes none) and the files it was handed
\* (<<>> when it takes none)
OpArgs(name, outcome, qty, files) ==
  [name |-> name, outcome |-> outcome, qty |-> qty, files |-> files]

OpQ(name, outcome, qty) == OpArgs(name, outcome, qty, <<>>)

Op(name, outcome) == OpQ(name, outcome, 0)

CartCall(color, size, qty, unitPrice) ==
  [color |-> color, size |-> size, quantity |-> qty, unitPrice |-> unitPrice]

\* mutant of CallsForItems: every line is handed over with the whole quantity
CallsForItemsWithTotal(items, unitPrice) ==
  [i \in 1..Len(items) |->
     CartCall(items[i].color, items[i].size, quantity, unitPrice)]

\* distributionItems.forEach(item => addToCart(product, item.color, item.size,
\*                                             item.quantity, unitPrice))
CallsForItems(items, unitPrice) ==
  [i \in 1..Len(items) |->
     CartCall(items[i].color, items[i].size, items[i].quantity, unitPrice)]

\* mutant of ModeFor: distribution mode for any quantity of a product with
\* options
ModeForAnyQuantity(q) == hasOptions

\* the variant effect on [quantity, product.colors, product.sizes]:
\* distribution mode for a requested quantity q
ModeFor(q) == hasOptions /\ q > 1

\* the same effect: it empties the list when it leaves distribution mode
ItemsAfterEffect(q, items) == IF ModeFor(q) THEN items ELSE <<>>

\* mutant of QuantityAfterTierEffect: the tier effect leaves quantity alone
QuantityKeptByTierEffect(T, q) == q

\* quantity the tier effect leaves, given the loaded tiers
QuantityAfterTierEffect(T, q) ==
  IF Len(T) > 0 /\ product.has_tiered_pricing /\ q < T[1].min_quantity
  THEN T[1].min_quantity ELSE q

\* the quantity handleAddToCart resets to
ResetQuantity ==
  IF product.has_tiered_pricing /\ Len(priceTiers) > 0
  THEN priceTiers[1].min_quantity ELSE 1

\* youtubeUtils is not called on its own
NoUtilCall ==
  /\ urlParts = [prefix |-> "", shape |-> "", id |-> "", suffix |-> ""]
  /\ extracted = <<>>

\* no gallery is shown
NoGallery ==
  /\ media = <<>>
  /\ currentMainIndex = 0
  /\ selectedVideoUrl = UNDEF

\* no product page is loading its product
NoProductLoad ==
  /\ details = [productId |-> UNDEF, product |-> UNDEF, corretor |-> UNDEF,
                loading |-> FALSE, error |-> UNDEF, present |-> FALSE]
  /\ runs = <<>>
  /\ dom = [metaTags |-> "default", className |-> ""]
  /\ setterCalls = <<>>

\* the users page is not mounted
NoUsersPage ==
  /\ users = <<>>
  /\ displayedUsers = <<>>
  /\ selectedUsers = {}
  /\ loading = FALSE
  /\ searchTerm = ""
  /\ roleFilter = "all"
  /\ statusFilter = "all"
  /\ planFilter = "all"
  /\ table = <<>>
  /\ calls = <<>>
  /\ toasts = <<>>

\* the media manager is not part of a product page behaviour
NoMediaManager ==
  /\ images = <<>>
  /\ showCropper = FALSE
  /\ selectedFile = <<>>
  /\ pendingFiles = <<>>
  /\ currentFileIndex = 0
  /\ imageToRecrop = <<>>
  /\ showVideoDialog = FALSE
  /\ youtubeUrl = ""
  /\ clock = 0

InitPage ==
  /\ mounted = "ProductDetailsPage"
  /\ NoMediaManager
  /\ NoGallery
  /\ NoUtilCall
  /\ NoUsersPage
  /\ NoProductLoad
  /\ product \in Products
  /\ priceTiers = <<>>
  /\ quantity = 1
  /\ distributionMode = FALSE
  /\ distributionItems = <<>>
  /\ newItemColor = UNDEF
  /\ newItemSize = UNDEF
  /\ newItemQuantity = 1
  /\ selectedColor = UNDEF
  /\ selectedSize = UNDEF
  /\ cartCalls = <<>>
  /\ lastOp = Op("mount", "ok")

\* useTieredPricing delivers the tier list; the tier effect, then the variant
\* effect, run on the new render
TiersLoaded ==
  /\ mounted = "ProductDetailsPage"
  /\ priceTiers = <<>>
  /\ \E T \in TierLists :
       /\ priceTiers' = T
       /\ quantity' = QuantityAfterTierEffect(T, quantity)
       /\ distributionMode' = ModeFor(quantity')
       /\ distributionItems' = ItemsAfterEffect(quantity', distributionItems)
  /\ cartCalls' = <<>>
  /\ lastOp' = Op("tiersLoaded", "ok")
  /\ UNCHANGED <<mounted, elsewhere, mediaVars, product, newItemColor, newItemSize, newItemQuantity,
                 selectedColor, selectedSize>>

\* The distribution form (new-item inputs, add / remove / update of entries)
\* is offered in distribution mode only: outside it the page keeps no entries
\* (the variant effect empties the list) and handleAddToCart ignores them.
DistributionFormShown == distributionMode

\* option values a select over list offers, and "nothing chosen"
Choices(list) == {UNDEF} \cup {list[i] : i \in 1..Len(list)}

SetNewItemColor ==
  /\ mounted = "ProductDetailsPage"
  /\ DistributionFormShown
  /\ \E c \in Choices(product.colors) : c # newItemColor /\ newItemColor' = c
  /\ cartCalls' = <<>>
  /\ lastOp' = Op("setNewItemColor", "ok")
  /\ UNCHANGED <<mounted, elsewhere, mediaVars, product, priceTiers, quantity, distributionMode,
                 distributionItems, newItemSize, newItemQuantity,
                 selectedColor, selectedSize>>

SetNewItemSize ==
  /\ mounted = "ProductDetailsPage"
  /\ DistributionFormShown
  /\ \E z \in Choices(product.sizes) : z # newItemSize /\ newItemSize' = z
  /\ cartCalls' = <<>>
  /\ lastOp' = Op("setNewItemSize", "ok")
  /\ UNCHANGED <<mounted, elsewhere, mediaVars, product, priceTiers, quantity, distributionMode,
                 distributionItems, newItemColor, newItemQuantity,
                 selectedColor, selectedSize>>

SetNewItemQuantity ==
  /\ mounted = "ProductDetailsPage"
  /\ DistributionFormShown
  /\ \E n \in 0..MaxQuantity : n # newItemQuantity /\ newItemQuantity' = n
  /\ cartCalls' = <<>>
  /\ lastOp' = Op("setNewItemQuantity", "ok")
  /\ UNCHANGED <<mounted, elsewhere, mediaVars, product, priceTiers, quantity, distributionMode,
                 distributionItems, newItemColor, newItemSize,
                 selectedColor, selectedSize>>

\* mutant of isDuplicate: an entry counts as the same only with the same
\* quantity too
isDuplicateWithQuantity ==
  \E i \in 1..Len(distributionItems) :
    /\ distributionItems[i].color = newItemColor
    /\ distributionItems[i].size = newItemSize
    /\ distributionItems[i].quantity = newItemQuantity

\* distributionItems.some(item => item.color === newItemColor &&
\*                                item.size === newItemSize)
isDuplicate ==
  \E i \in 1..Len(distributionItems) :
    /\ distributionItems[i].color = newItemColor
    /\ distributionItems[i].size = newItemSize

\* mutant of ExceedsTotal: the new entry alone is compared with the total
ExceedsTotalIgnoringSum == newItemQuantity > quantity

\* distributedQuantity + newItemQuantity > quantity
ExceedsTotal == distributedQuantity + newItemQuantity > quantity

\* mutant of AddOutcome: the size check is missing
AddOutcomeWithoutSizeCheck ==
  IF hasColors /\ ~Truthy(newItemColor) THEN "no_color"
  ELSE IF newItemQuantity <= 0 THEN "bad_quantity"
  ELSE IF distributedQuantity + newItemQuantity > quantity THEN "exceeds"
  ELSE IF \E i \in 1..Len(distributionItems) :
            /\ distributionItems[i].color = newItemColor
            /\ distributionItems[i].size = newItemSize THEN "duplicate"
  ELSE "added"

\* the validation outcome of addDistributionItem, in the order of its checks
AddOutcome ==
  IF hasColors /\ ~Truthy(newItemColor) THEN "no_color"
  ELSE IF hasSizes /\ ~Truthy(newItemSize) THEN "no_size"
  ELSE IF newItemQuantity <= 0 THEN "bad_quantity"
  ELSE IF ExceedsTotal THEN "exceeds"
  ELSE IF isDuplicate THEN "duplicate"
  ELSE "added"

newItem ==
  [color |-> IF hasColors THEN newItemColor ELSE UNDEF,
   size |-> IF hasSizes THEN newItemSize ELSE UNDEF,
   quantity |-> newItemQuantity]

\* a variant that appends whatever the checks said
ItemsAfterAddUnchecked == Append(distributionItems, newItem)

\* setDistributionItems([...distributionItems, newItem]), reached only when
\* no check returned early
ItemsAfterAdd ==
  IF AddOutcome = "added" THEN Append(distributionItems, newItem)
  ELSE distributionItems

addDistributionItem ==
  /\ mounted = "ProductDetailsPage"
  /\ DistributionFormShown
  /\ lastOp' = Op("addDistributionItem", AddOutcome)
  /\ cartCalls' = <<>>
  /\ distributionItems' = ItemsAfterAdd
  /\ IF AddOutcome = "added"
     THEN /\ newItemColor' = UNDEF
          /\ newItemSize' = UNDEF
          /\ newItemQuantity' = 1
     ELSE UNCHANGED <<newItemColor, newItemSize, newItemQuantity>>
  /\ UNCHANGED <<mounted, elsewhere, mediaVars, product, priceTiers, quantity, distributionMode,
                 selectedColor, selectedSize>>

\* items.filter(item => item.id !== id): ids are unique, so the id of an
\* entry names its position i
WithoutItem(items, i) ==
  SubSeq(items, 1, i - 1) \o SubSeq(items, i + 1, Len(items))

removeDistributionItem ==
  /\ mounted = "ProductDetailsPage"
  /\ DistributionFormShown
  /\ \E i \in 1..Len(distributionItems) :
       distributionItems' = WithoutItem(distributionItems, i)
  /\ cartCalls' = <<>>
  /\ lastOp' = Op("removeDistributionItem", "ok")
  /\ UNCHANGED <<mounted, elsewhere, mediaVars, product, priceTiers, quantity, distributionMode,
                 newItemColor, newItemSize, newItemQuantity, selectedColor,
                 selectedSize>>

\* the list updateDistributionItemQuantity(id, newQty) stores
ItemsAfterUpdate(items, i, newQty) ==
  IF newQty <= 0 THEN WithoutItem(items, i)
  ELSE [items EXCEPT ![i].quantity = newQty]

updateDistributionItemQuantity ==
  /\ mounted = "ProductDetailsPage"
  /\ DistributionFormShown
  /\ \E i \in 1..Len(distributionItems), newQty \in 0..MaxQuantity :
       distributionItems' = ItemsAfterUpdate(distributionItems, i, newQty)
  /\ cartCalls' = <<>>
  /\ lastOp' = Op("updateDistributionItemQuantity", "ok")
  /\ UNCHANGED <<mounted, elsewhere, mediaVars, product, priceTiers, quantity, distributionMode,
                 newItemColor, newItemSize, newItemQuantity, selectedColor,
                 selectedSize>>

\* mutant of DistributionReady: an overfull distribution passes too
DistributionReadyAtLeast == distributedQuantity >= quantity

\* the checkout gate of handleAddToCart in distribution mode
DistributionReady == isDistributionComplete

\* what handleAddToCart does, in the order of its checks
CartOutcome ==
  IF ~isAvailable \/ ~hasPrice THEN "unavailable"
  ELSE IF distributionMode /\ hasOptions
       THEN IF ~DistributionReady THEN "incomplete"
            ELSE IF Len(distributionItems) = 0 THEN "empty"
            ELSE "distributed"
       ELSE "single"

handleAddToCart ==
  /\ mounted = "ProductDetailsPage"
  /\ lastOp' = OpQ("handleAddToCart", CartOutcome, quantity)
  /\ LET unitPrice == FindUnitPrice(product, priceTiers, quantity) IN
     IF CartOutcome \in {"distributed", "single"}
     THEN /\ cartCalls' =
               IF CartOutcome = "distributed"
               THEN CallsForItems(distributionItems, unitPrice)
               ELSE <<CartCall(UNDEF, UNDEF, quantity, unitPrice)>>
          /\ quantity' = ResetQuantity
          /\ distributionItems' = <<>>
          /\ selectedColor' = UNDEF
          /\ selectedSize' = UNDEF
          /\ distributionMode' =
               IF quantity' # quantity THEN ModeFor(quantity')
               ELSE distributionMode
     ELSE /\ cartCalls' = <<>>
          /\ UNCHANGED <<quantity, distributionItems, selectedColor,
                         selectedSize, distributionMode>>
  /\ UNCHANGED <<mounted, elsewhere, mediaVars, product, priceTiers, newItemColor, newItemSize,
                 newItemQuantity>>

----------------------------------------------------------------------------
\* QuickPurchasePanel callbacks (the panel hands over qty and distItems)

firstColor == IF hasColors THEN product.colors[1] ELSE UNDEF

firstSize == IF hasSizes THEN product.sizes[1] ELSE UNDEF

\* the distItems arguments the model draws: none, one entry, two entries
PanelDistributions(qty) ==
  {<<>>, <<[color |-> firstColor, size |-> firstSize, quantity |-> qty]>>}
  \cup IF qty >= 2
       THEN {<<[color |-> firstColor, size |-> firstSize, quantity |-> 1],
               [color |-> UNDEF, size |-> UNDEF, quantity |-> qty - 1]>>}
       ELSE {}

\* the addToCart calls of a panel callback that resolved unitPrice
PanelCalls(qty, distItems, unitPrice) ==
  IF Len(distItems) > 0 THEN CallsForItems(distItems, unitPrice)
  ELSE <<CartCall(UNDEF, UNDEF, qty, unitPrice)>>

\* the inline onAddToCart of ProductDetailsPage.tsx; the panel is rendered
\* only for an available, priced product
onAddToCart ==
  /\ mounted = "ProductDetailsPage"
  /\ isAvailable /\ hasPrice
  /\ \E qty \in 1..MaxQuantity :
       \E distItems \in PanelDistributions(qty) :
         /\ cartCalls' = PanelCalls(qty, distItems,
                                    FindUnitPrice(product, priceTiers, qty))
         /\ lastOp' = OpQ("onAddToCart", "added", qty)
  /\ UNCHANGED <<mounted, elsewhere, mediaVars, pageVars>>

\* the page variant whose only purchase path is the panel: its state is the
\* product and the tier list
InitQuick ==
  /\ mounted = "ProductDetailsPageQuick"
  /\ NoMediaManager
  /\ NoGallery
  /\ NoUtilCall
  /\ NoUsersPage
  /\ NoProductLoad
  /\ product \in Products
  /\ priceTiers = <<>>
  /\ quantity = 1
  /\ distributionMode = FALSE
  /\ distributionItems = <<>>
  /\ newItemColor = UNDEF
  /\ newItemSize = UNDEF
  /\ newItemQuantity = 1
  /\ selectedColor = UNDEF
  /\ selectedSize = UNDEF
  /\ cartCalls = <<>>
  /\ lastOp = Op("mount", "ok")

QuickTiersLoaded ==
  /\ mounted = "ProductDetailsPageQuick"
  /\ priceTiers = <<>>
  /\ \E T \in TierLists : priceTiers' = T
  /\ cartCalls' = <<>>
  /\ lastOp' = Op("tiersLoaded", "ok")
  /\ UNCHANGED <<mounted, elsewhere, mediaVars, product, quantity, distributionMode,
                 distributionItems, newItemColor, newItemSize,
                 newItemQuantity, selectedColor, selectedSize>>

QuickHandleAddToCart ==
  /\ mounted = "ProductDetailsPageQuick"
  /\ isAvailable /\ hasPrice
  /\ \E qty \in 1..MaxQuantity :
       \E distItems \in PanelDistributions(qty) :
         /\ cartCalls' = PanelCalls(qty, distItems,
                                    SortedUnitPrice(product, priceTiers, qty))
         /\ lastOp' = OpQ("quickHandleAddToCart", "added", qty)
  /\ UNCHANGED <<mounted, elsewhere, mediaVars, pageVars>>

----------------------------------------------------------------------------
\* youtubeUtils

Char(s, i) == SubSeq(s, i, i)

\* \s, for the whitespace the inputs use
Whitespace == {" ", "\t", "\n"}

\* the complement of [^&\s?]
StopChars == {"&", "?"} \cup Whitespace

\* [a-zA-Z0-9_-]
IdChars ==
  {"a", "b", "c", "d", "e", "f", "g", "h", "i", "j", "k", "l", "m", "n", "o",
   "p", "q", "r", "s", "t", "u", "v", "w", "x", "y", "z",
   "A", "B", "C", "D", "E", "F", "G", "H", "I", "J", "K", "L", "M", "N", "O",
   "P", "Q", "R", "S", "T", "U", "V", "W", "X", "Y", "Z",
   "0", "1", "2", "3", "4", "5", "6", "7", "8", "9", "_", "-"}

\* s.trim()
Trim(s) ==
  IF \A i \in 1..Len(s) : Char(s, i) \in Whitespace THEN ""
  ELSE LET first == CHOOSE i \in 1..Len(s) :
                      /\ Char(s, i) \notin Whitespace
                      /\ \A j \in 1..(i - 1) : Char(s, j) \in Whitespace
           last == CHOOSE i \in 1..Len(s) :
                     /\ Char(s, i) \notin Whitespace
                     /\ \A j \in (i + 1)..Len(s) : Char(s, j) \in Whitespace
       IN SubSeq(s, first, last)

\* the literal pre occurs in s at position p
OccursAt(s, p, pre) ==
  p + Len(pre) - 1 <= Len(s) /\ SubSeq(s, p, p + Len(pre) - 1) = pre

\* ([^&\s?]+) from position from: the longest run of non-stop characters,
\* "" when there is none
RunFrom(s, from) ==
  LET end == CHOOSE e \in (from - 1)..Len(s) :
               /\ \A k \in from..e : Char(s, k) \notin StopChars
               /\ e = Len(s) \/ Char(s, e + 1) \in StopChars
  IN SubSeq(s, from, end)

\* the alternative literal lits[a] matches at p and is followed by a
\* non-empty capture
AltMatches(s, p, lits, a) ==
  OccursAt(s, p, lits[a]) /\ RunFrom(s, p + Len(lits[a])) # ""

\* url.match(/(?:lit1|lit2|...)([^&\s?]+)/): <<>> for no match, else
\* <<capture>> of the leftmost match, alternatives tried in order
MatchPrefixed(s, lits) ==
  IF \E p \in 1..Len(s), a \in 1..Len(lits) : AltMatches(s, p, lits, a)
  THEN LET p == CHOOSE q \in 1..Len(s) :
                  /\ \E a \in 1..Len(lits) : AltMatches(s, q, lits, a)
                  /\ \A r \in 1..(q - 1) :
                       \A a \in 1..Len(lits) : ~AltMatches(s, r, lits, a)
           a == CHOOSE b \in 1..Len(lits) :
                  /\ AltMatches(s, p, lits, b)
                  /\ \A c \in 1..(b - 1) : ~AltMatches(s, p, lits, c)
       IN <<RunFrom(s, p + Len(lits[a]))>>
  ELSE <<>>

\* /^[a-zA-Z0-9_-]{11}$/.test(s)
IsBareId(s) == Len(s) = 11 /\ \A i \in 1..11 : Char(s, i) \in IdChars

\* the three patterns, in the order the loop tries them
Patterns ==
  << <<"youtube.com/watch?v=", "youtu.be/", "youtube.com/embed/">>,
     <<"youtube.com/shorts/">>,
     <<"youtube.com/v/">> >>

\* <<>> for null, <<id>> otherwise
extractYouTubeVideoId(url) ==
  IF url = "" THEN <<>>
  ELSE IF \E k \in 1..Len(Patterns) : MatchPrefixed(url, Patterns[k]) # <<>>
  THEN MatchPrefixed(url, Patterns[
         CHOOSE k \in 1..Len(Patterns) :
           /\ MatchPrefixed(url, Patterns[k]) # <<>>
           /\ \A j \in 1..(k - 1) : MatchPrefixed(url, Patterns[j]) = <<>>])
  ELSE IF IsBareId(Trim(url)) THEN <<Trim(url)>>
  ELSE <<>>

getYouTubeEmbedUrl(videoId) == "https://www.youtube.com/embed/" \o videoId

isValidYouTubeUrl(url) == extractYouTubeVideoId(url) # <<>>

\* what the user may type into the link field
YoutubeInputs == {"  ", "not a url", "https://youtu.be/dQw4w9WgXcQ"}

\* the values the link field can hold
FieldValues == YoutubeInputs \cup {""}

\* youtubeUrl.trim(), isValidYouTubeUrl(youtubeUrl) and
\* extractYouTubeVideoId(youtubeUrl), tabulated over the field's values
TrimmedUrl == [u \in FieldValues |-> Trim(u)]

UrlIsValid == [u \in FieldValues |-> isValidYouTubeUrl(u)]

UrlVideoId == [u \in FieldValues |-> extractYouTubeVideoId(u)]

\* texts handed to extractYouTubeVideoId: prefix, URL shape, id, suffix
UrlPrefixes == {"", "https://", "https://www.", "https://not"}

UrlShapes ==
  {"youtube.com/watch?v=", "youtu.be/", "youtube.com/embed/",
   "youtube.com/shorts/", "youtube.com/v/", "vimeo.com/", ""}

UrlIds == {"dQw4w9WgXcQ", "abc", ""}

UrlSuffixes == {"", "&t=1", "#t=1"}

UrlText(parts) == parts.prefix \o parts.shape \o parts.id \o parts.suffix

----------------------------------------------------------------------------
\* ProductImageManager

\* maxFileSize prop default, in MiB
maxFileSize == 5

MaxBytes == maxFileSize * 1024 * 1024

File(name, size, type) == [name |-> name, size |-> size, type |-> type]

Files ==
  { File("limit.png", MaxBytes, "image/png"),
    File("over.png", MaxBytes + 1, "image/png"),
    File("six.jpg", 6 * 1024 * 1024, "image/jpeg"),
    File("notes.txt", 1000, "text/plain"),
    File("small.webp", 1000, "image/webp") }

\* the FileLists a file input or a drop delivers: none, one or two files
FileSelections ==
  { <<>>,
    <<File("limit.png", MaxBytes, "image/png")>>,
    <<File("over.png", MaxBytes + 1, "image/png")>>,
    <<File("limit.png", MaxBytes, "image/png"),
      File("small.webp", 1000, "image/webp")>>,
    <<File("six.jpg", 6 * 1024 * 1024, "image/jpeg"),
      File("small.webp", 1000, "image/webp")>>,
    <<File("notes.txt", 1000, "text/plain"),
      File("over.png", MaxBytes + 1, "image/png")>> }

\* file.type.startsWith('image/')
StartsWith(s, pre) == Len(s) >= Len(pre) /\ SubSeq(s, 1, Len(pre)) = pre

\* a variant that refuses a file of exactly the limit
IsValidFileBelowLimit(file) ==
  file.size < MaxBytes /\ StartsWith(file.type, "image/")

\* the filter of handleFileSelect: size within the limit and an image type
IsValidFile(file) ==
  ~(file.size > MaxBytes) /\ StartsWith(file.type, "image/")

\* arr.slice(0, n): a negative n counts from the end
Slice0(arr, n) ==
  IF n >= 0 THEN SubSeq(arr, 1, IF n < Len(arr) THEN n ELSE Len(arr))
  ELSE SubSeq(arr, 1, IF Len(arr) + n > 0 THEN Len(arr) + n ELSE 0)

MediaItem(id, url, file, featured, type, videoId) ==
  [id |-> id, url |-> url, file |-> file, isFeatured |-> featured,
   mediaType |-> type, videoId |-> videoId]

StoredImage(id, featured) ==
  MediaItem(id, "stored", "none", featured, "image", UNDEF)

StoredVideo(id, featured) ==
  MediaItem(id, getYouTubeEmbedUrl("dQw4w9WgXcQ"), "none", featured, "video",
            "dQw4w9WgXcQ")

\* media lists the parent may pass at mount: at most one featured item
InitialMedia ==
  { <<>>,
    <<StoredImage(1, TRUE)>>,
    <<StoredImage(1, FALSE), StoredVideo(2, TRUE)>> }

remainingSlots == maxImages - Len(images)

\* the product page is not part of a media manager behaviour
NoProductPage ==
  /\ product = Product("disponivel", 9, 0, FALSE, <<>>, <<>>)
  /\ priceTiers = <<>>
  /\ quantity = 1
  /\ distributionMode = FALSE
  /\ distributionItems = <<>>
  /\ newItemColor = UNDEF
  /\ newItemSize = UNDEF
  /\ newItemQuantity = 1
  /\ selectedColor = UNDEF
  /\ selectedSize = UNDEF
  /\ cartCalls = <<>>

\* the media manager mounts with one of the given lists
InitMediaWith(lists) ==
  /\ mounted = "ProductImageManager"
  /\ NoProductPage
  /\ NoGallery
  /\ NoUtilCall
  /\ NoUsersPage
  /\ NoProductLoad
  /\ images \in lists
  /\ showCropper = FALSE
  /\ selectedFile = <<>>
  /\ pendingFiles = <<>>
  /\ currentFileIndex = 0
  /\ imageToRecrop = <<>>
  /\ showVideoDialog = FALSE
  /\ youtubeUrl = ""
  /\ clock = 3
  /\ lastOp = Op("mount", "ok")

InitMedia == InitMediaWith(InitialMedia)

\* the media manager of a product that has no media yet
InitMediaEmpty == InitMediaWith({<<>>})

\* validFiles of handleFileSelect(files)
ValidFiles(files) ==
  SelectSeq(Slice0(files, remainingSlots), IsValidFile)

\* how handleFileSelect(files) ends
SelectOutcome(files) ==
  IF Len(Slice0(files, remainingSlots)) = 0 THEN "limit"
  ELSE IF Len(ValidFiles(files)) > 0 THEN "queued"
  ELSE "none_valid"

\* the upload area (file input and drop zone) is rendered while slots remain
handleFileSelect ==
  /\ mounted = "ProductImageManager"
  /\ remainingSlots > 0
  /\ \E files \in FileSelections :
       /\ lastOp' = OpArgs("handleFileSelect", SelectOutcome(files), 0, files)
       /\ IF SelectOutcome(files) = "queued"
          THEN /\ pendingFiles' = ValidFiles(files)
               /\ currentFileIndex' = 0
               /\ selectedFile' = <<ValidFiles(files)[1]>>
               /\ showCropper' = TRUE
          ELSE UNCHANGED <<pendingFiles, currentFileIndex, selectedFile,
                           showCropper>>
  /\ UNCHANGED <<mounted, elsewhere, pageVars, cartCalls, images, imageToRecrop,
                 showVideoDialog, youtubeUrl, clock>>

\* a variant that replaces the content of every entry
RecroppedImagesAll ==
  [i \in 1..Len(images) |->
     [images[i] EXCEPT !.url = "blob:recropped", !.file = "recropped"]]

\* the list handleCropComplete passes to onChange on the recrop path
RecroppedImages ==
  [i \in 1..Len(images) |->
     IF images[i].id = imageToRecrop[1].id
     THEN [images[i] EXCEPT !.url = "blob:recropped", !.file = "recropped"]
     ELSE images[i]]

\* isFeatured of the entry a completed crop appends
NewImageFeatured == Len(images) = 0 /\ currentFileIndex = 0

\* a variant that names every entry after the first file of the batch
NewImageFromFirstPending ==
  MediaItem(clock, "blob:cropped", pendingFiles[1].name, NewImageFeatured,
            "image", UNDEF)

\* the entry a completed crop of selectedFile appends
NewImage ==
  MediaItem(clock, "blob:cropped", selectedFile[1].name, NewImageFeatured,
            "image", UNDEF)

\* the cropper calls back only while it is rendered and open
CropperOpen == showCropper /\ (selectedFile # <<>> \/ imageToRecrop # <<>>)

handleCropComplete ==
  /\ mounted = "ProductImageManager"
  /\ CropperOpen
  /\ IF imageToRecrop # <<>>
     THEN /\ images' = RecroppedImages
          /\ showCropper' = FALSE
          /\ imageToRecrop' = <<>>
          /\ lastOp' = Op("handleCropComplete", "recropped")
          /\ UNCHANGED <<selectedFile, pendingFiles, currentFileIndex, clock>>
     ELSE /\ clock <= MaxClock
          /\ images' = Append(images, NewImage)
          /\ clock' = clock + 1
          /\ IF currentFileIndex < Len(pendingFiles) - 1
             THEN /\ currentFileIndex' = currentFileIndex + 1
                  /\ selectedFile' = <<pendingFiles[currentFileIndex + 2]>>
                  /\ lastOp' = Op("handleCropComplete", "next")
                  /\ UNCHANGED <<showCropper, pendingFiles>>
             ELSE /\ showCropper' = FALSE
                  /\ selectedFile' = <<>>
                  /\ pendingFiles' = <<>>
                  /\ currentFileIndex' = 0
                  /\ lastOp' = Op("handleCropComplete", "done")
          /\ UNCHANGED imageToRecrop
  /\ UNCHANGED <<mounted, elsewhere, pageVars, cartCalls, showVideoDialog, youtubeUrl>>

\* a variant that closes the cropper and forgets to empty the queue
handleCropCancelKeepingQueue ==
  /\ mounted = "ProductImageManager"
  /\ CropperOpen
  /\ showCropper' = FALSE
  /\ selectedFile' = <<>>
  /\ currentFileIndex' = 0
  /\ imageToRecrop' = <<>>
  /\ lastOp' = Op("handleCropCancel", "ok")
  /\ UNCHANGED <<mounted, elsewhere, pageVars, cartCalls, images, pendingFiles,
                 showVideoDialog, youtubeUrl, clock>>

handleCropCancel ==
  /\ mounted = "ProductImageManager"
  /\ CropperOpen
  /\ showCropper' = FALSE
  /\ selectedFile' = <<>>
  /\ pendingFiles' = <<>>
  /\ currentFileIndex' = 0
  /\ imageToRecrop' = <<>>
  /\ lastOp' = Op("handleCropCancel", "ok")
  /\ UNCHANGED <<mounted, elsewhere, pageVars, cartCalls, images, showVideoDialog,
                 youtubeUrl, clock>>

\* setImageToRecrop(image): of the stored entry, handleCropComplete reads
\* the id alone
RecropTarget(image) == [id |-> image.id]

handleRecropImage ==
  /\ mounted = "ProductImageManager"
  /\ \E i \in 1..Len(images) :
       IF images[i].mediaType = "video"
       THEN /\ lastOp' = Op("handleRecropImage", "video")
            /\ UNCHANGED <<imageToRecrop, showCropper>>
       ELSE /\ imageToRecrop' = <<RecropTarget(images[i])>>
            /\ showCropper' = TRUE
            /\ lastOp' = Op("handleRecropImage", "ok")
  /\ UNCHANGED <<mounted, elsewhere, pageVars, cartCalls, images, selectedFile,
                 pendingFiles, currentFileIndex, showVideoDialog, youtubeUrl,
                 clock>>

\* the "Adicionar Link" button, rendered while slots remain
openVideoDialog ==
  /\ mounted = "ProductImageManager"
  /\ remainingSlots > 0
  /\ ~showVideoDialog
  /\ showVideoDialog' = TRUE
  /\ lastOp' = Op("openVideoDialog", "ok")
  /\ UNCHANGED <<mounted, elsewhere, pageVars, cartCalls, images, showCropper,
                 selectedFile, pendingFiles, currentFileIndex, imageToRecrop,
                 youtubeUrl, clock>>

\* typing into the link field of the open dialog
setYoutubeUrl ==
  /\ mounted = "ProductImageManager"
  /\ showVideoDialog
  /\ \E u \in YoutubeInputs : u # youtubeUrl /\ youtubeUrl' = u
  /\ lastOp' = Op("setYoutubeUrl", "ok")
  /\ UNCHANGED <<mounted, elsewhere, pageVars, cartCalls, images, showCropper,
                 selectedFile, pendingFiles, currentFileIndex, imageToRecrop,
                 showVideoDialog, clock>>

\* the Cancelar button: closes the dialog and clears the field
cancelVideoDialog ==
  /\ mounted = "ProductImageManager"
  /\ showVideoDialog
  /\ showVideoDialog' = FALSE
  /\ youtubeUrl' = ""
  /\ lastOp' = Op("cancelVideoDialog", "ok")
  /\ UNCHANGED <<mounted, elsewhere, pageVars, cartCalls, images, showCropper,
                 selectedFile, pendingFiles, currentFileIndex, imageToRecrop,
                 clock>>

\* onOpenChange={setShowVideoDialog}: the dialog asks to close (Escape, the
\* overlay, its close button); the field keeps its text
onOpenChange ==
  /\ mounted = "ProductImageManager"
  /\ showVideoDialog
  /\ showVideoDialog' = FALSE
  /\ lastOp' = Op("onOpenChange", "ok")
  /\ UNCHANGED <<mounted, elsewhere, pageVars, cartCalls, images, showCropper,
                 selectedFile, pendingFiles, currentFileIndex, imageToRecrop,
                 youtubeUrl, clock>>

\* how handleAddVideo ends, in the order of its checks
VideoOutcome ==
  IF TrimmedUrl[youtubeUrl] = "" THEN "empty"
  ELSE IF ~UrlIsValid[youtubeUrl] THEN "invalid"
  ELSE IF UrlVideoId[youtubeUrl] = <<>> THEN "no_id"
  ELSE "added"

\* the entry handleAddVideo appends
NewVideo ==
  LET videoId == UrlVideoId[youtubeUrl][1] IN
  MediaItem(clock, getYouTubeEmbedUrl(videoId), "none", Len(images) = 0,
            "video", videoId)

\* the list handleAddVideo leaves
ImagesAfterAddVideo ==
  IF VideoOutcome = "added" THEN Append(images, NewVideo) ELSE images

handleAddVideo ==
  /\ mounted = "ProductImageManager"
  /\ showVideoDialog
  /\ VideoOutcome = "added" => clock <= MaxClock
  /\ lastOp' = Op("handleAddVideo", VideoOutcome)
  /\ images' = ImagesAfterAddVideo
  /\ IF VideoOutcome = "added"
     THEN /\ youtubeUrl' = ""
          /\ showVideoDialog' = FALSE
          /\ clock' = clock + 1
     ELSE UNCHANGED <<youtubeUrl, showVideoDialog, clock>>
  /\ UNCHANGED <<mounted, elsewhere, pageVars, cartCalls, showCropper, selectedFile,
                 pendingFiles, currentFileIndex, imageToRecrop>>

\* a variant that flags the chosen entry and clears no other
WithFeaturedKeepingOthers(list, imageId) ==
  [i \in 1..Len(list) |->
     [list[i] EXCEPT !.isFeatured = (list[i].isFeatured \/ list[i].id = imageId)]]

\* images.map(img => ({...img, isFeatured: img.id === imageId}))
WithFeatured(list, imageId) ==
  [i \in 1..Len(list) |-> [list[i] EXCEPT !.isFeatured = (list[i].id = imageId)]]

setFeaturedImage ==
  /\ mounted = "ProductImageManager"
  /\ \E i \in 1..Len(images) : images' = WithFeatured(images, images[i].id)
  /\ lastOp' = Op("setFeaturedImage", "ok")
  /\ UNCHANGED <<mounted, elsewhere, pageVars, cartCalls, showCropper, selectedFile,
                 pendingFiles, currentFileIndex, imageToRecrop,
                 showVideoDialog, youtubeUrl, clock>>

\* images.find(img => img.id === imageId)?.isFeatured
IsFeaturedId(list, imageId) ==
  \E i \in 1..Len(list) :
    /\ list[i].id = imageId
    /\ \A j \in 1..(i - 1) : list[j].id # imageId
    /\ list[i].isFeatured

\* a variant that promotes nothing
PromoteNone(list, imageId, remaining) == remaining

\* the remaining list promotes its first entry when the removed one was
\* featured
PromoteFirst(list, imageId, remaining) ==
  IF IsFeaturedId(list, imageId) /\ Len(remaining) > 0
  THEN [remaining EXCEPT ![1].isFeatured = TRUE]
  ELSE remaining

\* the list removeImage(imageId) passes to onChange
WithoutImage(list, imageId) ==
  PromoteFirst(list, imageId, SelectSeq(list, LAMBDA img : img.id # imageId))

removeImage ==
  /\ mounted = "ProductImageManager"
  /\ \E i \in 1..Len(images) :
       /\ images' = WithoutImage(images, images[i].id)
       /\ lastOp' = Op("removeImage",
                       IF images[i].isFeatured THEN "featured" ELSE "plain")
  /\ UNCHANGED <<mounted, elsewhere, pageVars, cartCalls, showCropper, selectedFile,
                 pendingFiles, currentFileIndex, imageToRecrop,
                 showVideoDialog, youtubeUrl, clock>>

----------------------------------------------------------------------------
\* UsersManagementPage

\* a row of the remote users table; slug is UNDEF when null
User(id, name, email, slug, role, is_blocked, plan_status) ==
  [id |-> id, name |-> name, email |-> email, slug |-> slug, role |-> role,
   is_blocked |-> is_blocked, plan_status |-> plan_status]

\* the rows of the table when the page mounts, newest first
InitialTable ==
  << User("u1", "ANA", "a@x", UNDEF, "admin", FALSE, "active"),
     User("u2", "Bob", "b@x", "Dan", "corretor", TRUE, "inactive") >>

UserIds == {InitialTable[i].id : i \in 1..Len(InitialTable)}

\* values the controls of UserListControls offer
SearchTerms == {"", "An", "B@"}

RoleFilters == {"all", "admin"}

StatusFilters == {"all", "active", "blocked"}

PlanFilters == {"all", "active"}

UpperCase == "ABCDEFGHIJKLMNOPQRSTUVWXYZ"

LowerCase == "abcdefghijklmnopqrstuvwxyz"

\* c.toLowerCase() for one character
LowerChar(c) ==
  IF \E k \in 1..26 : Char(UpperCase, k) = c
  THEN Char(LowerCase, CHOOSE k \in 1..26 : Char(UpperCase, k) = c)
  ELSE c

RECURSIVE toLowerCase(_)
toLowerCase(s) ==
  IF s = "" THEN ""
  ELSE LowerChar(Char(s, 1)) \o toLowerCase(SubSeq(s, 2, Len(s)))

\* s.includes(t)
includes(s, t) == \E p \in 1..(Len(s) + 1) : OccursAt(s, p, t)

SearchKeepsCaseSensitive(user, term) ==
  \/ includes(user.name, term)
  \/ includes(user.email, term)
  \/ user.slug # UNDEF /\ user.slug # "" /\ includes(user.slug, term)

\* the predicate of the search filter (66-70)
SearchKeeps(user, term) ==
  \/ includes(toLowerCase(user.name), toLowerCase(term))
  \/ includes(toLowerCase(user.email), toLowerCase(term))
  \/ /\ user.slug # UNDEF
     /\ user.slug # ""
     /\ includes(toLowerCase(user.slug), toLowerCase(term))

\* SearchKeeps tabulated: the ids of the rows each search term keeps (name,
\* email and slug of a row never change)
SearchKept ==
  [term \in SearchTerms |->
     {InitialTable[i].id : i \in {k \in 1..Len(InitialTable) :
                                    SearchKeeps(InitialTable[k], term)}}]

\* the filter effect (61-93): what it hands to setDisplayedUsers
FilteredUsers(list, term, role, status, plan) ==
  LET bySearch == IF term # ""
                  THEN SelectSeq(list, LAMBDA user : user.id \in SearchKept[term])
                  ELSE list
      byRole == IF role # "all"
                THEN SelectSeq(bySearch, LAMBDA user : user.role = role)
                ELSE bySearch
      byStatus == IF status # "all"
                  THEN IF status = "active"
                       THEN SelectSeq(byRole, LAMBDA user : ~user.is_blocked)
                       ELSE IF status = "blocked"
                       THEN SelectSeq(byRole, LAMBDA user : user.is_blocked)
                       ELSE byRole
                  ELSE byRole
      byPlan == IF plan # "all"
                THEN SelectSeq(byStatus, LAMBDA user : user.plan_status = plan)
                ELSE byStatus
  IN byPlan

\* a request to the remote client: select, update is_blocked, or delete
Request(op, ids, is_blocked) ==
  [op |-> op, ids |-> ids, is_blocked |-> is_blocked]

SelectAll == Request("select", {}, FALSE)

\* the client's result object: error set or not, the rows of a select
Reply(error, data) == [error |-> error, data |-> data]

\* a handler run: its arguments, the requests it has issued in order and the
\* results it has received; it is suspended at an await while a request has
\* no result yet
Call(handler, userId, currentBlocked, action, userIds, sent) ==
  [handler |-> handler, userId |-> userId, currentBlocked |-> currentBlocked,
   action |-> action, userIds |-> userIds, sent |-> sent, replies |-> <<>>]

Awaiting(call) == Len(call.replies) < Len(call.sent)

\* the table after the remote store has carried out a request
TableAfter(rows, request) ==
  IF request.op = "update"
  THEN [i \in 1..Len(rows) |->
          IF rows[i].id \in request.ids
          THEN [rows[i] EXCEPT !.is_blocked = request.is_blocked]
          ELSE rows[i]]
  ELSE IF request.op = "delete"
  THEN SelectSeq(rows, LAMBDA row : row.id \notin request.ids)
  ELSE rows

Toast(kind, text) == [kind |-> kind, text |-> text]

\* the write handleBulkAction issues for an action (184-203)
BulkRequests(action, userIds) ==
  IF action = "block" THEN <<Request("update", userIds, TRUE)>>
  ELSE IF action = "unblock" THEN <<Request("update", userIds, FALSE)>>
  ELSE IF action = "delete" THEN <<Request("delete", userIds, FALSE)>>
  ELSE <<>>

UsersAfterToggleAll(list, userId, currentBlocked) ==
  [i \in 1..Len(list) |-> [list[i] EXCEPT !.is_blocked = ~currentBlocked]]

\* setUsers(prev => prev.map(...)) of handleToggleBlock (141-145)
UsersAfterToggle(list, userId, currentBlocked) ==
  [i \in 1..Len(list) |->
     IF list[i].id = userId
     THEN [list[i] EXCEPT !.is_blocked = ~currentBlocked]
     ELSE list[i]]

\* setUsers(prev => prev.filter(...)) of handleDeleteUser (168)
UsersAfterDelete(list, userId) ==
  SelectSeq(list, LAMBDA user : user.id # userId)

\* what fetchUsers does with the result of its select (103-109)
UsersAfterFetch(list, reply) == IF reply.error THEN list ELSE reply.data

FetchToasts(reply) ==
  IF reply.error THEN <<Toast("error", "Erro ao carregar usuários")>>
  ELSE <<>>

\* the filter effect, run on the state the step leaves
FilterEffect ==
  displayedUsers' = FilteredUsers(users', searchTerm', roleFilter',
                                  statusFilter', planFilter')

WithoutCall(i) == SubSeq(calls, 1, i - 1) \o SubSeq(calls, i + 1, Len(calls))

\* the page mounts: the mount effect has called fetchUsers
InitUsers ==
  /\ mounted = "UsersManagementPage"
  /\ NoProductPage
  /\ NoMediaManager
  /\ NoGallery
  /\ NoUtilCall
  /\ NoProductLoad
  /\ users = <<>>
  /\ displayedUsers = <<>>
  /\ selectedUsers = {}
  /\ loading = TRUE
  /\ searchTerm = ""
  /\ roleFilter = "all"
  /\ statusFilter = "all"
  /\ planFilter = "all"
  /\ table = InitialTable
  /\ calls = <<Call("fetchUsers", UNDEF, FALSE, UNDEF, {}, <<SelectAll>>)>>
  /\ toasts = <<>>
  /\ lastOp = Op("mount", "ok")

UsersPage == mounted = "UsersManagementPage"

\* a step that starts a handler run and leaves it at its first await
Starts(call) ==
  /\ Len(calls) < MaxInFlight
  /\ calls' = Append(calls, call)
  /\ toasts' = <<>>
  /\ UNCHANGED <<table, besidesUsers, lastOp>>

\* the remote store carries out the request a run is waiting for, or fails,
\* and the client has the result
remoteReplies ==
  /\ UsersPage
  /\ \E i \in 1..Len(calls), error \in BOOLEAN :
       LET call == calls[i]
           request == call.sent[Len(call.sent)]
           rows == IF error THEN table ELSE TableAfter(table, request)
           data == IF ~error /\ request.op = "select" THEN rows ELSE <<>>
       IN /\ Awaiting(call)
          /\ table' = rows
          /\ calls' = [calls EXCEPT ![i].replies = Append(@, Reply(error, data))]
  /\ toasts' = <<>>
  /\ UNCHANGED <<users, displayedUsers, selectedUsers, loading, searchTerm,
                 roleFilter, statusFilter, planFilter, besidesUsers, lastOp>>

\* fetchUsers up to its await (96-101), from the refresh control
fetchUsers ==
  /\ UsersPage
  /\ loading' = TRUE
  /\ Starts(Call("fetchUsers", UNDEF, FALSE, UNDEF, {}, <<SelectAll>>))
  /\ UNCHANGED <<users, displayedUsers, selectedUsers, searchTerm, roleFilter,
                 statusFilter, planFilter>>

\* fetchUsers after its await (103-110)
fetchUsersResumes ==
  /\ UsersPage
  /\ \E i \in 1..Len(calls) :
       LET call == calls[i] IN
       /\ call.handler = "fetchUsers"
       /\ ~Awaiting(call)
       /\ users' = UsersAfterFetch(users, call.replies[1])
       /\ toasts' = FetchToasts(call.replies[1])
       /\ calls' = WithoutCall(i)
  /\ loading' = FALSE
  /\ UNCHANGED <<selectedUsers, searchTerm, roleFilter, statusFilter,
                 planFilter, table, besidesUsers, lastOp>>
  /\ FilterEffect

\* handleSelectUser (113-121) from a row's checkbox
handleSelectUser ==
  /\ UsersPage
  /\ \E i \in 1..Len(displayedUsers), checked \in BOOLEAN :
       selectedUsers' = IF checked
                        THEN selectedUsers \cup {displayedUsers[i].id}
                        ELSE selectedUsers \ {displayedUsers[i].id}
  /\ toasts' = <<>>
  /\ UNCHANGED <<users, displayedUsers, loading, searchTerm, roleFilter,
                 statusFilter, planFilter, table, calls, besidesUsers, lastOp>>

\* handleSelectAll (123-129)
handleSelectAll ==
  /\ UsersPage
  /\ \E checked \in BOOLEAN :
       selectedUsers' =
         IF checked
         THEN {displayedUsers[i].id : i \in 1..Len(displayedUsers)}
         ELSE {}
  /\ toasts' = <<>>
  /\ UNCHANGED <<users, displayedUsers, loading, searchTerm, roleFilter,
                 statusFilter, planFilter, table, calls, besidesUsers, lastOp>>

\* onClearSelection of the floating bar (258), shown while something is
\* selected
onClearSelection ==
  /\ UsersPage
  /\ selectedUsers # {}
  /\ selectedUsers' = {}
  /\ toasts' = <<>>
  /\ UNCHANGED <<users, displayedUsers, loading, searchTerm, roleFilter,
                 statusFilter, planFilter, table, calls, besidesUsers, lastOp>>

\* a control of UserListControls changes a filter; the filter effect runs
FilterChange ==
  /\ UsersPage
  /\ toasts' = <<>>
  /\ UNCHANGED <<users, selectedUsers, loading, table, calls, besidesUsers, lastOp>>
  /\ FilterEffect

setSearchTerm ==
  /\ \E term \in SearchTerms : term # searchTerm /\ searchTerm' = term
  /\ UNCHANGED <<roleFilter, statusFilter, planFilter>>
  /\ FilterChange

setRoleFilter ==
  /\ \E role \in RoleFilters : role # roleFilter /\ roleFilter' = role
  /\ UNCHANGED <<searchTerm, statusFilter, planFilter>>
  /\ FilterChange

setStatusFilter ==
  /\ \E status \in StatusFilters :
       status # statusFilter /\ statusFilter' = status
  /\ UNCHANGED <<searchTerm, roleFilter, planFilter>>
  /\ FilterChange

setPlanFilter ==
  /\ \E plan \in PlanFilters : plan # planFilter /\ planFilter' = plan
  /\ UNCHANGED <<searchTerm, roleFilter, statusFilter>>
  /\ FilterChange

\* handleToggleBlock up to its await (131-136), from a row of the table
handleToggleBlock ==
  /\ UsersPage
  /\ \E i \in 1..Len(displayedUsers) :
       LET user == displayedUsers[i] IN
       Starts(Call("handleToggleBlock", user.id, user.is_blocked, UNDEF, {},
                   <<Request("update", {user.id}, ~user.is_blocked)>>))
  /\ UNCHANGED <<users, displayedUsers, selectedUsers, loading, searchTerm,
                 roleFilter, statusFilter, planFilter>>

\* handleToggleBlock after its await (138-155)
handleToggleBlockResumes ==
  /\ UsersPage
  /\ \E i \in 1..Len(calls) :
       LET call == calls[i] IN
       /\ call.handler = "handleToggleBlock"
       /\ ~Awaiting(call)
       /\ IF call.replies[1].error
          THEN /\ users' = users
               /\ toasts' = <<Toast("error", "Erro ao alterar status do usuário")>>
          ELSE /\ users' = UsersAfterToggle(users, call.userId,
                                            call.currentBlocked)
               /\ toasts' = <<Toast("success",
                                   IF call.currentBlocked
                                   THEN "Usuário desbloqueado com sucesso"
                                   ELSE "Usuário bloqueado com sucesso")>>
       /\ calls' = WithoutCall(i)
  /\ UNCHANGED <<selectedUsers, loading, searchTerm, roleFilter, statusFilter,
                 planFilter, table, besidesUsers, lastOp>>
  /\ FilterEffect

\* handleDeleteUser up to its await (158-163), from a row of the table
handleDeleteUser ==
  /\ UsersPage
  /\ \E i \in 1..Len(displayedUsers) :
       Starts(Call("handleDeleteUser", displayedUsers[i].id, FALSE, UNDEF, {},
                   <<Request("delete", {displayedUsers[i].id}, FALSE)>>))
  /\ UNCHANGED <<users, displayedUsers, selectedUsers, loading, searchTerm,
                 roleFilter, statusFilter, planFilter>>

\* handleDeleteUser after its await (165-179)
handleDeleteUserResumes ==
  /\ UsersPage
  /\ \E i \in 1..Len(calls) :
       LET call == calls[i] IN
       /\ call.handler = "handleDeleteUser"
       /\ ~Awaiting(call)
       /\ IF call.replies[1].error
          THEN /\ users' = users
               /\ selectedUsers' = selectedUsers
               /\ toasts' = <<Toast("error", "Erro ao excluir usuário")>>
          ELSE /\ users' = UsersAfterDelete(users, call.userId)
               /\ selectedUsers' = selectedUsers \ {call.userId}
               /\ toasts' = <<Toast("success", "Usuário excluído com sucesso")>>
       /\ calls' = WithoutCall(i)
  /\ UNCHANGED <<loading, searchTerm, roleFilter, statusFilter, planFilter,
                 table, besidesUsers, lastOp>>
  /\ FilterEffect

\* the cases of the switch in handleBulkAction (185-202)
BulkCases == {"block", "unblock", "delete"}

\* the actions the floating bar calls handleBulkAction with (263-268); no
\* control of the page passes "delete"
BulkActions == {"block", "unblock"}

\* handleBulkAction up to its first await (182-203), from the floating bar,
\* shown while something is selected
handleBulkAction ==
  /\ UsersPage
  /\ selectedUsers # {}
  /\ \E action \in BulkActions :
       Starts(Call("handleBulkAction", UNDEF, FALSE, action, selectedUsers,
                   BulkRequests(action, selectedUsers)))
  /\ UNCHANGED <<users, displayedUsers, selectedUsers, loading, searchTerm,
                 roleFilter, statusFilter, planFilter>>

handleBulkActionRefreshesClearing ==
  /\ UsersPage
  /\ \E i \in 1..Len(calls) :
       /\ calls[i].handler = "handleBulkAction"
       /\ ~Awaiting(calls[i])
       /\ Len(calls[i].sent) = 1
       /\ calls' = [calls EXCEPT ![i].sent = Append(@, SelectAll)]
  /\ loading' = TRUE
  /\ toasts' = <<>>
  /\ selectedUsers' = {}
  /\ UNCHANGED <<users, displayedUsers, searchTerm, roleFilter, statusFilter,
                 planFilter, table, besidesUsers, lastOp>>

\* handleBulkAction after the write's await: the result is dropped and
\* fetchUsers runs up to its await (206, 96-101)
handleBulkActionRefreshes ==
  /\ UsersPage
  /\ \E i \in 1..Len(calls) :
       /\ calls[i].handler = "handleBulkAction"
       /\ ~Awaiting(calls[i])
       /\ Len(calls[i].sent) = 1
       /\ calls' = [calls EXCEPT ![i].sent = Append(@, SelectAll)]
  /\ loading' = TRUE
  /\ toasts' = <<>>
  /\ UNCHANGED <<users, displayedUsers, selectedUsers, searchTerm, roleFilter,
                 statusFilter, planFilter, table, besidesUsers, lastOp>>

\* the rest of fetchUsers (103-110), then the rest of handleBulkAction
\* (207-209)
handleBulkActionResumes ==
  /\ UsersPage
  /\ \E i \in 1..Len(calls) :
       LET call == calls[i] IN
       /\ call.handler = "handleBulkAction"
       /\ ~Awaiting(call)
       /\ Len(call.sent) = 2
       /\ users' = UsersAfterFetch(users, call.replies[2])
       /\ toasts' = FetchToasts(call.replies[2])
                      \o <<Toast("success", "Ação executada com sucesso")>>
       /\ calls' = WithoutCall(i)
  /\ loading' = FALSE
  /\ selectedUsers' = {}
  /\ UNCHANGED <<searchTerm, roleFilter, statusFilter, planFilter, table,
                 besidesUsers, lastOp>>
  /\ FilterEffect

----------------------------------------------------------------------------
\* ProductDetailsPage: the effect that loads the product (86-202)

\* the products the route can name, and the seller (corretor) of each
ProductIds == {"p1", "p2"}

SellerOf == [id \in ProductIds |-> IF id = "p1" THEN "c1" ELSE "c2"]

\* corretorData.theme, "" when the seller has none
ThemeOf == [id \in {"c1", "c2"} |-> IF id = "c1" THEN "dark" ELSE ""]

\* a call of a state setter
Set(field, value) == [field |-> field, value |-> value]

\* the component state after the setter calls of a step; React drops the
\* updates of a component that is no longer mounted
RECURSIVE AfterSetters(_, _)
AfterSetters(state, setters) ==
  IF setters = <<>> \/ ~state.present THEN state
  ELSE AfterSetters([state EXCEPT ![setters[1].field] = setters[1].value],
                    Tail(setters))

\* a run of fetchProductDetails for the productId its effect closed over
Run(productId, awaiting) == [productId |-> productId, awaiting |-> awaiting]

\* the run at position i moves on to its next await, or returns
RunsAfter(i, awaiting) ==
  IF awaiting = "returned"
  THEN SubSeq(runs, 1, i - 1) \o SubSeq(runs, i + 1, Len(runs))
  ELSE [runs EXCEPT ![i].awaiting = awaiting]

\* mutant of CatchAndFinally: the catch without the finally
CatchWithoutFinally ==
  <<Set("error", "Erro ao carregar os dados do produto")>>

\* catch and finally (181-186)
CatchAndFinally ==
  <<Set("error", "Erro ao carregar os dados do produto"),
    Set("loading", FALSE)>>

\* the effect cleanup (192-200)
CleanedUp(document) ==
  [document EXCEPT !.metaTags = "default",
                   !.className = IF @ \in {"light", "dark"} THEN "" ELSE @]

\* mutant of Screen: the second guard without the error test
ScreenIgnoringError(d) ==
  IF d.loading THEN "loader"
  ELSE IF d.product = UNDEF \/ d.corretor = UNDEF THEN "error"
  ELSE "details"

\* what the page renders (274-293): the loader while loading, the error
\* screen when error is set or product or corretor is missing, the details
\* otherwise
Screen(d) ==
  IF d.loading THEN "loader"
  ELSE IF d.error # UNDEF \/ d.product = UNDEF \/ d.corretor = UNDEF
       THEN "error"
  ELSE "details"

\* the page mounts with the route's productId and its effect has run up to
\* the first await, or to the end when the route has no productId (91-94)
InitLoad ==
  /\ mounted = "ProductDetailsPageLoad"
  /\ NoProductPage
  /\ NoMediaManager
  /\ NoGallery
  /\ NoUtilCall
  /\ NoUsersPage
  /\ dom = [metaTags |-> "default", className |-> ""]
  /\ \E productId \in ProductIds \cup {UNDEF} :
       IF productId = UNDEF
       THEN /\ details = [productId |-> UNDEF, product |-> UNDEF,
                          corretor |-> UNDEF, loading |-> FALSE,
                          error |-> "ID do produto não encontrado",
                          present |-> TRUE]
            /\ runs = <<>>
            /\ setterCalls = <<Set("error", "ID do produto não encontrado"),
                               Set("loading", FALSE)>>
       ELSE /\ details = [productId |-> productId, product |-> UNDEF,
                          corretor |-> UNDEF, loading |-> TRUE,
                          error |-> UNDEF, present |-> TRUE]
            /\ runs = <<Run(productId, "product")>>
            /\ setterCalls = <<>>
  /\ lastOp = Op("mount", "ok")

LoadPage == mounted = "ProductDetailsPageLoad"

\* the route changes to another product while the page stays mounted: the
\* cleanup of the old effect runs, then the effect again (86-202)
productIdChanges ==
  /\ LoadPage
  /\ details.present
  /\ Len(runs) < MaxInFlight
  /\ \E productId \in ProductIds \ {details.productId} :
       /\ details' = [details EXCEPT !.productId = productId]
       /\ runs' = Append(runs, Run(productId, "product"))
  /\ dom' = CleanedUp(dom)
  /\ setterCalls' = <<>>
  /\ lastOp' = Op("productIdChanges", "ok")
  /\ UNCHANGED besidesLoad

unmountAborting ==
  /\ LoadPage
  /\ details.present
  /\ details' = [details EXCEPT !.present = FALSE]
  /\ dom' = CleanedUp(dom)
  /\ setterCalls' = <<>>
  /\ runs' = <<>>
  /\ lastOp' = Op("unmount", "ok")
  /\ UNCHANGED besidesLoad

\* the page unmounts: only the cleanup runs (192-200)
unmount ==
  /\ LoadPage
  /\ details.present
  /\ details' = [details EXCEPT !.present = FALSE]
  /\ dom' = CleanedUp(dom)
  /\ setterCalls' = <<>>
  /\ lastOp' = Op("unmount", "ok")
  /\ UNCHANGED <<runs, besidesLoad>>

\* a step of a run after an await: the setters it calls, its next await
Resumes(i, setters, awaiting, outcome) ==
  /\ setterCalls' = setters
  /\ details' = AfterSetters(details, setters)
  /\ runs' = RunsAfter(i, awaiting)
  /\ lastOp' = Op("fetchProductDetails", outcome)
  /\ UNCHANGED besidesLoad

\* the product query returns (97-130): an error, no row, or the product
productQueryReturns ==
  /\ LoadPage
  /\ \E i \in 1..Len(runs), result \in {"error", "missing", "ok"} :
       /\ runs[i].awaiting = "product"
       /\ IF result = "error"
          THEN Resumes(i, CatchAndFinally, "returned", "productError")
          ELSE IF result = "missing"
          THEN Resumes(i, <<Set("error", "Produto não encontrado"),
                            Set("loading", FALSE)>>, "returned", "noProduct")
          ELSE Resumes(i, <<Set("product", runs[i].productId)>>, "corretor",
                       "setProduct")
  /\ UNCHANGED dom

\* the seller query returns (133-160): an error, or the seller, whose meta
\* tags and theme are applied to the document
corretorQueryReturns ==
  /\ LoadPage
  /\ \E i \in 1..Len(runs), result \in {"error", "ok"} :
       LET corretor == SellerOf[runs[i].productId] IN
       /\ runs[i].awaiting = "corretor"
       /\ IF result = "error"
          THEN /\ Resumes(i, CatchAndFinally, "returned", "corretorError")
               /\ UNCHANGED dom
          ELSE /\ Resumes(i, <<Set("corretor", corretor)>>, "tracking",
                          "setCorretor")
               /\ dom' = [metaTags |-> runs[i].productId,
                          className |-> IF ThemeOf[corretor] # ""
                                        THEN ThemeOf[corretor]
                                        ELSE dom.className]

\* loadTrackingSettings returns (163-171)
trackingSettingsReturn ==
  /\ LoadPage
  /\ \E i \in 1..Len(runs) :
       /\ runs[i].awaiting = "tracking"
       /\ Resumes(i, <<>>, "view", "tracking")
  /\ UNCHANGED dom

\* trackView returns (176-186): the run ends through finally
trackViewReturns ==
  /\ LoadPage
  /\ \E i \in 1..Len(runs) :
       /\ runs[i].awaiting = "view"
       /\ Resumes(i, <<Set("loading", FALSE)>>, "returned", "done")
  /\ UNCHANGED dom

----------------------------------------------------------------------------
\* youtubeUtils called on its own: a caller hands a text to the two exported
\* functions and keeps what they return

InitUtil ==
  /\ mounted = "youtubeUtils"
  /\ NoMediaManager
  /\ NoProductPage
  /\ NoGallery
  /\ NoUsersPage
  /\ NoProductLoad
  /\ urlParts \in [prefix : UrlPrefixes, shape : UrlShapes, id : UrlIds,
                   suffix : UrlSuffixes]
  /\ extracted = <<>>
  /\ lastOp = Op("mount", "ok")

callYouTubeUtils ==
  /\ mounted = "youtubeUtils"
  /\ extracted = <<>>
  /\ extracted' = <<[id |-> extractYouTubeVideoId(UrlText(urlParts)),
                     valid |-> isValidYouTubeUrl(UrlText(urlParts))]>>
  /\ lastOp' = Op("extractYouTubeVideoId", "ok")
  /\ UNCHANGED <<mounted, pageVars, cartCalls, mediaVars, usersVars, loadVars,
                 galleryVars, urlParts>>

----------------------------------------------------------------------------
\* ImageGallery (part_000:460-640), given the galleryMedia of a product page

\* a row of product.product_images; media_type is missing on older rows
ProductImage(id, media_type) ==
  [id |-> id, url |-> id, media_type |-> media_type]

\* the product_images lists a product can carry
ProductImageLists ==
  { <<>>,
    <<ProductImage("a", UNDEF)>>,
    <<ProductImage("v", "video")>>,
    <<ProductImage("a", "image"), ProductImage("v", "video")>>,
    <<ProductImage("a", "image"), ProductImage("b", UNDEF),
      ProductImage("v", "video")>>,
    <<ProductImage("v", "video"), ProductImage("a", "image"),
      ProductImage("w", "video")>> }

\* galleryMedia (ProductDetailsPage.tsx:296-309): the product's media with
\* media_type defaulting to 'image', or the single placeholder
galleryMedia(product_images) ==
  IF Len(product_images) > 0
  THEN [i \in 1..Len(product_images) |->
          [product_images[i] EXCEPT
             !.media_type = IF @ = UNDEF THEN "image" ELSE @]]
  ELSE <<ProductImage("default", "image")>>

\* list.findIndex(m => m.id === id), 0-based, -1 when absent
findIndex(list, id) ==
  IF \E i \in 1..Len(list) : list[i].id = id
  THEN (CHOOSE i \in 1..Len(list) :
          /\ list[i].id = id
          /\ \A j \in 1..(i - 1) : list[j].id # id) - 1
  ELSE -1

\* media[currentMainIndex] is an item: the render reads
\* currentMainItem.media_type (511, 525) and throws when it is undefined
RendersMainItem ==
  currentMainIndex >= 0 /\ currentMainIndex < Len(media)

\* const currentMainItem = media[currentMainIndex]
currentMainItem == media[currentMainIndex + 1]

GalleryShown == mounted = "ImageGallery" /\ RendersMainItem

\* the product page renders the gallery for its product
InitGallery ==
  /\ mounted = "ImageGallery"
  /\ NoProductPage
  /\ NoMediaManager
  /\ NoUtilCall
  /\ NoUsersPage
  /\ NoProductLoad
  /\ cartCalls = <<>>
  /\ \E product_images \in ProductImageLists :
       media = galleryMedia(product_images)
  /\ currentMainIndex = 0
  /\ selectedVideoUrl = UNDEF
  /\ lastOp = Op("mount", "ok")

GalleryFrame ==
  UNCHANGED <<mounted, pageVars, cartCalls, mediaVars, utilVars, usersVars,
              loadVars>>

\* onClick of a thumbnail, image (562-569) or video (596-606):
\* setCurrentMainIndex(mediaIndex)
thumbnailClick ==
  /\ GalleryShown
  /\ \E i \in 1..Len(media) :
       currentMainIndex' = findIndex(media, media[i].id)
  /\ lastOp' = Op("thumbnailClick", "ok")
  /\ UNCHANGED <<media, selectedVideoUrl>>
  /\ GalleryFrame

\* onDoubleClick of a video thumbnail (607)
videoDoubleClick ==
  /\ GalleryShown
  /\ \E i \in 1..Len(media) :
       /\ media[i].media_type = "video"
       /\ selectedVideoUrl' = media[i].url
  /\ lastOp' = Op("videoDoubleClick", "ok")
  /\ UNCHANGED <<media, currentMainIndex>>
  /\ GalleryFrame

\* handleMainClick (499-509): a video opens the player, an image the
\* lightbox
handleMainClick ==
  /\ GalleryShown
  /\ IF currentMainItem.media_type = "video"
     THEN /\ selectedVideoUrl' = currentMainItem.url
          /\ lastOp' = Op("handleMainClick", "video")
     ELSE /\ selectedVideoUrl' = selectedVideoUrl
          /\ lastOp' = Op("handleMainClick", "lightbox")
  /\ UNCHANGED <<media, currentMainIndex>>
  /\ GalleryFrame

\* the close button of the player (634)
closeVideo ==
  /\ GalleryShown
  /\ selectedVideoUrl # UNDEF
  /\ selectedVideoUrl' = UNDEF
  /\ lastOp' = Op("closeVideo", "ok")
  /\ UNCHANGED <<media, currentMainIndex>>
  /\ GalleryFrame

\* the page renders again with the media of another product (its route
\* changed and setProduct stored the new record): the gallery keeps its
\* state, only the prop changes
mediaReplaced ==
  /\ GalleryShown
  /\ \E product_images \in ProductImageLists :
       /\ galleryMedia(product_images) # media
       /\ media' = galleryMedia(product_images)
  /\ lastOp' = Op("mediaReplaced", "ok")
  /\ UNCHANGED <<currentMainIndex, selectedVideoUrl>>
  /\ GalleryFrame

----------------------------------------------------------------------------

\* Specifications

NextPage ==
  \/ TiersLoaded
  \/ SetNewItemColor
  \/ SetNewItemSize
  \/ SetNewItemQuantity
  \/ addDistributionItem
  \/ removeDistributionItem
  \/ updateDistributionItemQuantity
  \/ handleAddToCart
  \/ onAddToCart
  \/ QuickTiersLoaded
  \/ QuickHandleAddToCart

\* the two product page variants
SpecPage == (InitPage \/ InitQuick) /\ [][NextPage]_vars

NextMedia ==
  \/ handleFileSelect
  \/ handleCropComplete
  \/ handleCropCancel
  \/ handleRecropImage
  \/ openVideoDialog
  \/ setYoutubeUrl
  \/ cancelVideoDialog
  \/ onOpenChange
  \/ handleAddVideo
  \/ setFeaturedImage
  \/ removeImage

\* the media manager
SpecMedia == InitMedia /\ [][NextMedia]_vars

NextUtil == callYouTubeUtils

\* the exported functions of youtubeUtils
SpecUtil == InitUtil /\ [][NextUtil]_vars

\* the product pages and the media manager
SpecForms ==
  (InitPage \/ InitQuick \/ InitMedia) /\ [][NextPage \/ NextMedia]_vars

\* loading the list and selecting rows
NextUsersList ==
  \/ remoteReplies
  \/ fetchUsers
  \/ fetchUsersResumes
  \/ handleSelectUser
  \/ handleSelectAll
  \/ onClearSelection

NextUsersFilters ==
  \/ setSearchTerm
  \/ setRoleFilter
  \/ setStatusFilter
  \/ setPlanFilter

NextUsersRows ==
  \/ handleToggleBlock
  \/ handleToggleBlockResumes
  \/ handleDeleteUser
  \/ handleDeleteUserResumes

NextUsersBulk ==
  \/ handleBulkAction
  \/ handleBulkActionRefreshes
  \/ handleBulkActionResumes

NextUsers ==
  NextUsersList \/ NextUsersFilters \/ NextUsersRows \/ NextUsersBulk

\* the users page while the list is browsed: loaded, filtered, selected
SpecUsersFilters == InitUsers /\ [][NextUsersList \/ NextUsersFilters]_vars

\* the users page while single rows are blocked, unblocked and deleted, the
\* filters left as mounted
SpecUsersRows == InitUsers /\ [][NextUsersList \/ NextUsersRows]_vars

\* the users page while bulk actions run, the filters left as mounted
SpecUsersBulk == InitUsers /\ [][NextUsersList \/ NextUsersBulk]_vars

NextLoad ==
  \/ productIdChanges
  \/ unmount
  \/ productQueryReturns
  \/ corretorQueryReturns
  \/ trackingSettingsReturn
  \/ trackViewReturns

\* the product page while it loads its product
SpecLoad == InitLoad /\ [][NextLoad]_vars

NextGallery ==
  \/ thumbnailClick
  \/ videoDoubleClick
  \/ handleMainClick
  \/ closeVideo
  \/ mediaReplaced

\* the gallery of a product page
SpecGallery == InitGallery /\ [][NextGallery]_vars

Init ==
  \/ InitPage \/ InitQuick \/ InitMedia \/ InitUtil \/ InitUsers \/ InitLoad
  \/ InitGallery

Next ==
  NextPage \/ NextMedia \/ NextUtil \/ NextUsers \/ NextLoad \/ NextGallery

\* any one of the components
Spec == Init /\ [][Next]_vars

----------------------------------------------------------------------------
\* The cart's price for a line (CartContext.addToCart): the unit price handed
\* over, or the product's discounted price, else its base price

CartUnitPrice(p, unitPrice) ==
  IF unitPrice # NONE THEN unitPrice
  ELSE IF p.discounted_price # 0 /\ p.discounted_price < p.price
       THEN p.discounted_price
       ELSE p.price

----------------------------------------------------------------------------
\* Properties

\* indices of the tiers whose range [min_quantity, max_quantity or unbounded]
\* contains q
TiersContaining(T, q) ==
  {i \in 1..Len(T) :
     T[i].min_quantity <= q /\ (T[i].max_quantity = 0 \/ T[i].max_quantity >= q)}

\* the tier with the greatest min_quantity among those containing q
BestTier(T, q) ==
  T[CHOOSE i \in TiersContaining(T, q) :
      \A j \in TiersContaining(T, q) : T[j].min_quantity <= T[i].min_quantity]

\* the prices a tier carries
TierPrices(t) ==
  {t.unit_price} \cup
  (IF t.discounted_unit_price # 0 THEN {t.discounted_unit_price} ELSE {})

\* the last handler run handed lines to the cart
AddedToCart ==
  /\ lastOp.name \in {"handleAddToCart", "onAddToCart", "quickHandleAddToCart"}
  /\ cartCalls # <<>>

\* C1: whenever a resolver of the repository hands lines to the cart for a
\* tiered product and some tier's range contains the requested quantity, every
\* line carries a price of the tier with the greatest min_quantity among the
\* tiers containing that quantity.
C1_BestTierPricePassed ==
  (AddedToCart /\ product.has_tiered_pricing
     /\ TiersContaining(priceTiers, lastOp.qty) # {})
  => \A i \in 1..Len(cartCalls) :
       cartCalls[i].unitPrice \in TierPrices(BestTier(priceTiers, lastOp.qty))

\* C2: when the product has no tiered pricing, the tier list is empty or no
\* tier's range contains the requested quantity, every line handed to the
\* cart resolves to the product's base or discounted price.
C2_FallsBackToBasePrice ==
  (AddedToCart /\ (~product.has_tiered_pricing \/ priceTiers = <<>>
                    \/ TiersContaining(priceTiers, lastOp.qty) = {}))
  => \A i \in 1..Len(cartCalls) :
       CartUnitPrice(product, cartCalls[i].unitPrice)
         \in {product.price, product.discounted_price} \ {0}

\* C3 (as claimed): in every reachable state the distributed sum is at most
\* the requested quantity.
C3_SumNeverExceedsTotal == SumQuantity(distributionItems) <= quantity

\* C3 (amended): an addDistributionItem that appends an entry leaves the sum
\* of the quantities at most the requested quantity, and
\* removeDistributionItem never increases the sum.
C3_AddKeepsSumWithinTotal ==
  [][ /\ (lastOp'.name = "addDistributionItem" /\ lastOp'.outcome = "added")
         => SumQuantity(distributionItems') <= quantity'
      /\ lastOp'.name = "removeDistributionItem"
         => SumQuantity(distributionItems') <= SumQuantity(distributionItems)
    ]_vars

\* an appended entry brought the sum exactly to the requested total
C3_Witness ==
  /\ lastOp.name = "addDistributionItem" /\ lastOp.outcome = "added"
  /\ Len(distributionItems) >= 2
  /\ SumQuantity(distributionItems) = quantity

\* C4: for an available, priced product that offers colors or sizes and a
\* requested quantity above 1, handleAddToCart hands lines to the cart iff
\* the distributed sum equals the requested quantity; when it differs, no
\* addToCart call is made and quantity and distributionItems stay as they
\* were.
C4_CheckoutIffComplete ==
  [][ (lastOp'.name = "handleAddToCart" /\ isAvailable /\ hasPrice
         /\ hasOptions /\ quantity > 1)
      => /\ (cartCalls' # <<>>) <=> (SumQuantity(distributionItems) = quantity)
         /\ SumQuantity(distributionItems) # quantity
            => /\ cartCalls' = <<>>
               /\ quantity' = quantity
               /\ distributionItems' = distributionItems
    ]_vars

\* handleAddToCart refused an overfull distribution
C4_Witness ==
  /\ lastOp.name = "handleAddToCart" /\ lastOp.outcome = "incomplete"
  /\ distributionMode /\ isDistributionOverflow
  /\ cartCalls = <<>>

C7_RejectionsChangeNothing ==
  [][ /\ (lastOp'.name = "addDistributionItem" /\ lastOp'.outcome # "added")
         => /\ distributionItems' = distributionItems
            /\ newItemColor' = newItemColor
            /\ newItemSize' = newItemSize
            /\ newItemQuantity' = newItemQuantity
      /\ (lastOp'.name = "handleAddVideo" /\ lastOp'.outcome # "added")
         => /\ images' = images
            /\ youtubeUrl' = youtubeUrl
            /\ showVideoDialog' = showVideoDialog
    ]_vars

\* addDistributionItem refused a pair already in a non-empty distribution
C7_Witness ==
  /\ lastOp.name = "addDistributionItem" /\ lastOp.outcome = "duplicate"
  /\ Len(distributionItems) >= 1
  /\ newItemQuantity >= 1

FeaturedPositions(list) == {i \in 1..Len(list) : list[i].isFeatured}

\* C8: the media list handed to onChange never holds more than one featured
\* item
C8_AtMostOneFeatured == Cardinality(FeaturedPositions(images)) <= 1

\* setFeaturedImage moved the flag to a video appended to a stored list
C8_Witness ==
  /\ lastOp.name = "setFeaturedImage"
  /\ Len(images) = 3
  /\ images[3].isFeatured /\ images[3].mediaType = "video"
  /\ ~images[1].isFeatured /\ ~images[2].isFeatured

\* list without its entry at position i
RemoveAt(list, i) == SubSeq(list, 1, i - 1) \o SubSeq(list, i + 1, Len(list))

\* C9: removing the featured item of a list of at least two leaves exactly
\* one featured item, the first of the remaining ones; removing a
\* non-featured item leaves the other entries, flags included, as they were
C9_RemovePromotesFirst ==
  [][ lastOp'.name = "removeImage"
      => /\ (lastOp'.outcome = "featured" /\ Len(images) >= 2)
            => /\ Len(images') = Len(images) - 1
               /\ FeaturedPositions(images') = {1}
         /\ lastOp'.outcome = "plain"
            => \E i \in 1..Len(images) :
                 /\ ~images[i].isFeatured
                 /\ images' = RemoveAt(images, i)
    ]_vars

\* removeImage took the featured item out of a list of three
C9_Witness ==
  /\ lastOp.name = "removeImage" /\ lastOp.outcome = "featured"
  /\ Len(images) = 2
  /\ images[1].isFeatured /\ ~images[2].isFeatured

\* size within maxFileSize MiB and a MIME type that starts with "image/"
Acceptable(f) ==
  /\ f.size <= maxFileSize * 1024 * 1024
  /\ Len(f.type) >= 6 /\ SubSeq(f.type, 1, 6) = "image/"

\* names of the files the user can pick that are not acceptable
RefusedNames == {f.name : f \in {g \in Files : ~Acceptable(g)}}

\* the files of a selection that fit the free slots and are acceptable
Accepted(files, slots) ==
  SelectSeq(SubSeq(files, 1, IF slots < Len(files) THEN slots ELSE Len(files)),
            Acceptable)

\* C10: an oversize or non-image file is never queued nor added to the
\* media list; the acceptable files of a selection, a file of exactly the
\* limit among them, are queued; a selection with none leaves the cropper and
\* the queue as they were
C10_InvalidFilesRefused ==
  [][ /\ \A i \in 1..Len(pendingFiles') : Acceptable(pendingFiles'[i])
      /\ \A i \in 1..Len(selectedFile') : Acceptable(selectedFile'[i])
      /\ \A i \in 1..Len(images') : images'[i].file \notin RefusedNames
      /\ lastOp'.name = "handleFileSelect"
         => IF Accepted(lastOp'.files, remainingSlots) = <<>>
            THEN UNCHANGED <<showCropper, pendingFiles, selectedFile,
                             currentFileIndex, images>>
            ELSE /\ pendingFiles' = Accepted(lastOp'.files, remainingSlots)
                 /\ selectedFile' = <<pendingFiles'[1]>>
                 /\ showCropper'
    ]_vars

\* a selection of one oversize file left the idle component idle
C10_Witness ==
  /\ lastOp.name = "handleFileSelect" /\ lastOp.outcome = "none_valid"
  /\ Len(lastOp.files) = 1 /\ lastOp.files[1].size > maxFileSize * 1024 * 1024
  /\ ~showCropper /\ pendingFiles = <<>> /\ selectedFile = <<>>

\* the component is Idle: cropper closed, no file offered, none pending
CropIdle(shown, offered, pending, index) ==
  ~shown /\ offered = <<>> /\ pending = <<>> /\ index = 0

\* C11: the file offered to the cropper is always pendingFiles[currentFileIndex];
\* a queued selection starts at index 0; every completed crop of an offered
\* file appends exactly one image entry, made from that file, and either
\* moves to the next pending file (index + 1) or, after the last one, returns
\* to Idle; nothing but a queued selection, a completed crop or a cancel
\* changes the queue or the index, so the n-th completed crop of a batch of n
\* ends it with n entries appended
C11_CropsInSelectionOrder ==
  [][ /\ selectedFile' # <<>>
         => /\ currentFileIndex' < Len(pendingFiles')
            /\ selectedFile'[1] = pendingFiles'[currentFileIndex' + 1]
      /\ (lastOp'.name = "handleFileSelect" /\ lastOp'.outcome = "queued")
         => currentFileIndex' = 0 /\ showCropper'
      /\ (lastOp'.name = "handleCropComplete" /\ imageToRecrop = <<>>)
         => /\ Len(images') = Len(images) + 1
            /\ SubSeq(images', 1, Len(images)) = images
            /\ images'[Len(images')].mediaType = "image"
            /\ images'[Len(images')].file = selectedFile[1].name
            /\ IF currentFileIndex + 1 < Len(pendingFiles)
               THEN /\ currentFileIndex' = currentFileIndex + 1
                    /\ pendingFiles' = pendingFiles
                    /\ showCropper'
               ELSE CropIdle(showCropper', selectedFile', pendingFiles',
                             currentFileIndex')
      /\ (pendingFiles' # pendingFiles \/ currentFileIndex' # currentFileIndex)
         => lastOp'.name \in {"handleFileSelect", "handleCropComplete",
                              "handleCropCancel"}
    ]_vars

\* the second crop of a batch of two ended the batch: both entries appended
\* in selection order, the component Idle again
C11_Witness ==
  /\ lastOp.name = "handleCropComplete" /\ lastOp.outcome = "done"
  /\ Len(images) >= 2
  /\ images[Len(images) - 1].file = "limit.png"
  /\ images[Len(images)].file = "small.webp"
  /\ images[Len(images)].id = images[Len(images) - 1].id + 1
  /\ CropIdle(showCropper, selectedFile, pendingFiles, currentFileIndex)

\* C12: handleCropCancel leaves the component Idle with no recrop target and
\* the media list as it was; an image entry is appended only from a state
\* that offers a file to the open cropper, so no file discarded by a cancel
\* is appended unless it is selected again
C12_CancelReturnsToIdle ==
  [][ /\ lastOp'.name = "handleCropCancel"
         => /\ CropIdle(showCropper', selectedFile', pendingFiles',
                        currentFileIndex')
            /\ imageToRecrop' = <<>>
            /\ images' = images
      /\ (Len(images') > Len(images) /\ images'[Len(images')].mediaType = "image")
         => /\ showCropper /\ selectedFile # <<>>
            /\ images'[Len(images')].file = selectedFile[1].name
    ]_vars

\* a cancel after the first crop of a batch left the component Idle
C12_Witness ==
  /\ lastOp.name = "handleCropCancel"
  /\ CropIdle(showCropper, selectedFile, pendingFiles, currentFileIndex)
  /\ imageToRecrop = <<>>
  /\ Len(images) >= 1 /\ images[Len(images)].file = "limit.png"

\* C13: a completed recrop keeps the length and order of the media list and
\* the id, isFeatured flag and mediaType of every entry; it replaces the url
\* and file of the entry with the recrop target's id and leaves every other
\* entry as it was; the recrop target is never a video entry, and
\* handleRecropImage on a video starts nothing
C13_RecropReplacesContentOnly ==
  [][ /\ (lastOp'.name = "handleCropComplete" /\ imageToRecrop # <<>>)
         => /\ Len(images') = Len(images)
            /\ \A i \in 1..Len(images) :
                 IF images[i].id = imageToRecrop[1].id
                 THEN /\ images'[i].id = images[i].id
                      /\ images'[i].isFeatured = images[i].isFeatured
                      /\ images'[i].mediaType = images[i].mediaType
                      /\ images'[i].url = "blob:recropped"
                      /\ images'[i].file = "recropped"
                 ELSE images'[i] = images[i]
      /\ imageToRecrop' # <<>>
         => \A i \in 1..Len(images') :
              images'[i].id = imageToRecrop'[1].id
                => images'[i].mediaType = "image"
      /\ (lastOp'.name = "handleRecropImage" /\ lastOp'.outcome = "video")
         => UNCHANGED <<imageToRecrop, showCropper, images>>
    ]_vars

\* a recrop replaced the content of the first entry of a list whose second
\* entry is the featured video
C13_Witness ==
  /\ lastOp.name = "handleCropComplete" /\ lastOp.outcome = "recropped"
  /\ Len(images) >= 2
  /\ images[1].url = "blob:recropped" /\ ~images[1].isFeatured
  /\ images[2].mediaType = "video" /\ images[2].isFeatured
  /\ images[2].url # "blob:recropped"

\* URL shapes and hosts the claim names
AcceptedShapes ==
  {"youtube.com/watch?v=", "youtu.be/", "youtube.com/embed/",
   "youtube.com/shorts/", "youtube.com/v/"}

AcceptedPrefixes == {"", "https://", "https://www."}

\* what C14 expects for a text made of the given pieces: the id after an
\* accepted shape on an accepted host, a bare 11-character id, else null
ExpectedVideoId(parts) ==
  IF parts.shape \in AcceptedShapes /\ parts.prefix \in AcceptedPrefixes
     /\ parts.id # ""
  THEN <<parts.id>>
  ELSE IF parts.shape = "" /\ parts.prefix = "" /\ parts.suffix = ""
          /\ Len(parts.id) = 11
          /\ \A i \in 1..Len(parts.id) : SubSeq(parts.id, i, i) \in IdChars
  THEN <<parts.id>>
  ELSE <<>>

\* C14 (as claimed): extractYouTubeVideoId returns the video id for every
\* accepted URL shape and for a bare 11-character id, null for every other
\* text, and isValidYouTubeUrl is true exactly when the result is not null
C14_ExtractsIdOrNull ==
  extracted # <<>>
  => /\ extracted[1].id = ExpectedVideoId(urlParts)
     /\ extracted[1].valid <=> (extracted[1].id # <<>>)

\* the text fields of a user the search looks at
SearchedTexts(user) ==
  {user.name, user.email} \cup (IF user.slug = UNDEF THEN {} ELSE {user.slug})

\* a user satisfies all active filters together
PassesFilters(user) ==
  /\ searchTerm # ""
       => \E text \in SearchedTexts(user) :
            includes(toLowerCase(text), toLowerCase(searchTerm))
  /\ roleFilter # "all" => user.role = roleFilter
  /\ statusFilter = "active" => ~user.is_blocked
  /\ statusFilter = "blocked" => user.is_blocked
  /\ planFilter # "all" => user.plan_status = planFilter

\* C15: once the filter effect has run, displayedUsers is the sub-list of
\* users, in the same order, of the users that satisfy all active filters
\* (case-insensitive search on name, email or slug; role; blocked status;
\* plan status); "all" and an empty search term exclude nobody
C15_DisplayedIsFilteredSublist ==
  UsersPage => displayedUsers = SelectSeq(users, PassesFilters)

\* the search keeps one row by its slug only, and the status filter agrees
C15_Witness ==
  /\ Len(users) = 2
  /\ searchTerm = "An"
  /\ statusFilter = "blocked"
  /\ planFilter = "all"
  /\ Len(displayedUsers) = 1
  /\ displayedUsers[1].slug = "Dan"

\* the one batched write a bulk action over ids stands for
BatchedWrite(action, ids) ==
  IF action = "delete" THEN Request("delete", ids, FALSE)
  ELSE Request("update", ids, action = "block")

\* a bulk run has issued its one batched write over the ids it was given,
\* and after that at most the select of the re-fetch, the select only once
\* the write has returned
WriteThenRefetch(call) ==
  /\ call.sent \in {<<BatchedWrite(call.action, call.userIds)>>,
                    <<BatchedWrite(call.action, call.userIds), SelectAll>>}
  /\ Len(call.sent) = 2 => Len(call.replies) >= 1

\* every case of the switch issues the one batched write and nothing else
EveryCaseIsOneWrite ==
  \A action \in BulkCases, ids \in (SUBSET UserIds) \ {{}} :
    BulkRequests(action, ids) = <<BatchedWrite(action, ids)>>

\* C16: a bulk action issues exactly one batched update/delete over the
\* given ids, then the select of the re-fetch, the write always before the
\* select; the selection is cleared by the step that follows the completed
\* re-fetch and by no earlier step of the run
C16_WriteThenRefetchThenClear ==
  [][/\ EveryCaseIsOneWrite
     /\ \A i \in 1..Len(calls) :
          calls[i].handler = "handleBulkAction"
          => /\ WriteThenRefetch(calls[i])
             /\ calls' = WithoutCall(i)
                  => /\ Len(calls[i].sent) = 2
                     /\ Len(calls[i].replies) = 2
                     /\ selectedUsers' = {}
             /\ (Len(calls') = Len(calls) /\ calls'[i] # calls[i])
                  => /\ selectedUsers' = selectedUsers
                     /\ calls'[i].handler = "handleBulkAction"
                     /\ WriteThenRefetch(calls'[i])]_vars

\* a bulk block has run to its end: the write reached the table, the
\* re-fetched list shows it, the selection is cleared
C16_Witness ==
  /\ toasts = <<Toast("success", "Ação executada com sucesso")>>
  /\ selectedUsers = {}
  /\ Len(users) = 2
  /\ users[1].is_blocked
  /\ table[1].is_blocked
  /\ calls = <<>>

\* the step takes the bulk run calls[i] past the await of a write that
\* returned an error
ResumesAfterFailedWrite(i) ==
  /\ calls[i].handler = "handleBulkAction"
  /\ Len(calls[i].sent) = 1
  /\ Len(calls[i].replies) = 1
  /\ calls[i].replies[1].error
  /\ \/ calls' = WithoutCall(i)
     \/ Len(calls') = Len(calls) /\ calls'[i] # calls[i]

\* C17 (as claimed): when the write of a bulk action returns an error,
\* handleBulkAction ends with the error notification and no success
\* notification, and leaves the users list and the selection as they were
C17_FailedBulkWriteChangesNothing ==
  [][\A i \in 1..Len(calls) :
       ResumesAfterFailedWrite(i)
       => /\ calls' = WithoutCall(i)
          /\ toasts' = <<Toast("error", "Erro ao executar ação em lote")>>
          /\ users' = users
          /\ selectedUsers' = selectedUsers]_vars

\* the step ends the per-row run calls[i] of the given handler
RowRunEnds(i, handler) ==
  calls[i].handler = handler /\ calls' = WithoutCall(i)

\* the list keeps its rows, and the rows of other users are untouched
OnlyRowsOf(userId) ==
  /\ Len(users') = Len(users)
  /\ \A k \in 1..Len(users) :
       users[k].id # userId => users'[k] = users[k]

\* what C18 says of a delete and of a failed call
DeletesAndFailures(i) ==
  /\ (RowRunEnds(i, "handleDeleteUser") /\ ~calls[i].replies[1].error)
       => /\ users' = SelectSeq(users, LAMBDA user : user.id # calls[i].userId)
          /\ selectedUsers' = selectedUsers \ {calls[i].userId}
          /\ toasts' = <<Toast("success", "Usuário excluído com sucesso")>>
  /\ ((RowRunEnds(i, "handleDeleteUser") \/ RowRunEnds(i, "handleToggleBlock"))
         /\ calls[i].replies[1].error)
       => /\ users' = users
          /\ selectedUsers' = selectedUsers
          /\ Len(toasts') = 1
          /\ toasts'[1].kind = "error"

\* C18 (as claimed): a successful handleToggleBlock flips is_blocked of
\* exactly the targeted user; a successful handleDeleteUser removes that user
\* from users and selectedUsers; on an error result users and selectedUsers
\* are unchanged and an error notification is shown
C18_ToggleFlipsTarget ==
  [][\A i \in 1..Len(calls) :
       /\ DeletesAndFailures(i)
       /\ (RowRunEnds(i, "handleToggleBlock") /\ ~calls[i].replies[1].error)
            => /\ OnlyRowsOf(calls[i].userId)
               /\ \A k \in 1..Len(users) :
                    users[k].id = calls[i].userId
                    => users'[k] = [users[k] EXCEPT
                                      !.is_blocked = ~users[k].is_blocked]
               /\ selectedUsers' = selectedUsers]_vars

\* C18 (amended): a successful handleToggleBlock sets is_blocked of the
\* targeted user to the negation of the currentBlocked value it was called
\* with, which is a flip only while the row still holds that value, and
\* changes no other user; deletes and failures as claimed
C18_ToggleSetsNegatedArgument ==
  [][\A i \in 1..Len(calls) :
       /\ DeletesAndFailures(i)
       /\ (RowRunEnds(i, "handleToggleBlock") /\ ~calls[i].replies[1].error)
            => /\ OnlyRowsOf(calls[i].userId)
               /\ \A k \in 1..Len(users) :
                    users[k].id = calls[i].userId
                    => users'[k] = [users[k] EXCEPT
                                      !.is_blocked = ~calls[i].currentBlocked]
               /\ selectedUsers' = selectedUsers
               /\ Len(toasts') = 1
               /\ toasts'[1].kind = "success"]_vars

\* a toggle of the first user has succeeded while the second stayed blocked
C18_Witness ==
  /\ toasts = <<Toast("success", "Usuário bloqueado com sucesso")>>
  /\ Len(users) = 2
  /\ users[1].id = "u1" /\ users[1].is_blocked
  /\ users[2].id = "u2" /\ users[2].is_blocked

\* the awaits of fetchProductDetails; a run at one of them resumes when the
\* awaited call returns
Awaits == {"product", "corretor", "tracking", "view"}

\* the setter calls C19 names for each way a run can resume
ExpectedSetters(run, outcome) ==
  IF outcome = "setProduct" THEN <<Set("product", run.productId)>>
  ELSE IF outcome = "setCorretor"
  THEN <<Set("corretor", SellerOf[run.productId])>>
  ELSE IF outcome \in {"productError", "corretorError"}
  THEN <<Set("error", "Erro ao carregar os dados do produto"),
         Set("loading", FALSE)>>
  ELSE IF outcome = "noProduct"
  THEN <<Set("error", "Produto não encontrado"), Set("loading", FALSE)>>
  ELSE IF outcome = "done" THEN <<Set("loading", FALSE)>>
  ELSE <<>>

\* the step is a cleanup: the page unmounts or its productId changes
CleanupStep == lastOp'.name \in {"unmount", "productIdChanges"}

\* C19: a pending fetchProductDetails is never aborted.  A cleanup (unmount
\* or productId change) leaves every pending run pending, calls no setter,
\* leaves product, corretor, error and loading alone and only resets the
\* meta tags and the light/dark class; a pending run resumes whatever the
\* page has become, calls its setters, and while the page is mounted they
\* take effect even when the run was started for an earlier productId
C19_PendingFetchNeverAborted ==
  [][/\ \A i \in 1..Len(runs) : runs[i].awaiting \in Awaits
     /\ CleanupStep
          => /\ Len(runs') >= Len(runs)
             /\ SubSeq(runs', 1, Len(runs)) = runs
             /\ setterCalls' = <<>>
             /\ \A field \in {"product", "corretor", "error", "loading"} :
                  details'[field] = details[field]
             /\ dom'.metaTags = "default"
             /\ dom'.className = IF dom.className \in {"light", "dark"}
                                 THEN "" ELSE dom.className
     /\ lastOp'.name = "fetchProductDetails"
          => \E i \in 1..Len(runs) :
               /\ Len(runs') = Len(runs) => runs'[i] # runs[i]
               /\ Len(runs') < Len(runs) => runs' = RunsAfter(i, "returned")
               /\ setterCalls' = ExpectedSetters(runs[i], lastOp'.outcome)
               /\ details.present
                    => \A k \in 1..Len(setterCalls') :
                         details'[setterCalls'[k].field] = setterCalls'[k].value]_vars

\* the productId changed to p2 while the fetch of p1 was pending, and that
\* fetch has now stored its product
C19_Witness ==
  /\ details.present
  /\ details.productId = "p2"
  /\ details.product = "p1"
  /\ setterCalls = <<Set("product", "p1")>>

\* C20 (as claimed): the media list never holds more than maxImages entries,
\* whatever files are selected, crops completed and videos added; a
\* selection queues at most maxImages - images.length files and queues
\* nothing when no slot remains
C20_NeverMoreThanMaxImages ==
  /\ [](Len(images) <= maxImages)
  /\ [][lastOp'.name = "handleFileSelect"
          => \/ UNCHANGED <<pendingFiles, showCropper>>
             \/ /\ remainingSlots > 0
                /\ Len(pendingFiles') <= remainingSlots]_vars

----------------------------------------------------------------------------
\* Distribution mode, quantity floor and cart hand-over of the product page

TiersInForce == product.has_tiered_pricing /\ Len(priceTiers) > 0

\* C22: with tiered pricing and a loaded, non-empty tier list, quantity is
\* never below the first tier's min_quantity, and a handleAddToCart that
\* reaches the cart resets quantity to that minimum (to 1 without tiers).
C22_QuantityNeverBelowFirstTier ==
  /\ [](mounted = "ProductDetailsPage" /\ TiersInForce
          => quantity >= priceTiers[1].min_quantity)
  /\ [][ (mounted = "ProductDetailsPage" /\ lastOp'.name = "handleAddToCart"
            /\ cartCalls' # <<>>)
         => quantity' = IF TiersInForce THEN priceTiers[1].min_quantity ELSE 1
     ]_vars

\* the cart was handed lines while the first tier starts above 1
C22_Witness ==
  /\ mounted = "ProductDetailsPage"
  /\ lastOp.name = "handleAddToCart" /\ cartCalls # <<>>
  /\ TiersInForce /\ priceTiers[1].min_quantity > 1
  /\ quantity = priceTiers[1].min_quantity

\* C23: a handleAddToCart that reaches the cart hands it exactly quantity:
\* in distribution mode one call per entry, all at one unit price, whose
\* quantities sum to quantity, otherwise a single call with quantity; it
\* then empties distributionItems and clears the selected color and size.
\* For a product that is not available or has no positive price it makes no
\* call and changes no state of the page.
C23_CartReceivesQuantity ==
  [][ (mounted = "ProductDetailsPage" /\ lastOp'.name = "handleAddToCart")
      => IF ~(product.status = "disponivel") \/ ~(product.price > 0)
         THEN cartCalls' = <<>> /\ pageVars' = pageVars
         ELSE cartCalls' # <<>>
              => /\ SumQuantity(cartCalls') = quantity
                 /\ \A i \in 1..Len(cartCalls') :
                      cartCalls'[i].unitPrice = cartCalls'[1].unitPrice
                 /\ IF distributionMode
                    THEN /\ Len(cartCalls') = Len(distributionItems)
                         /\ \A i \in 1..Len(cartCalls') :
                              /\ cartCalls'[i].color = distributionItems[i].color
                              /\ cartCalls'[i].size = distributionItems[i].size
                              /\ cartCalls'[i].quantity = distributionItems[i].quantity
                    ELSE /\ Len(cartCalls') = 1
                         /\ cartCalls'[1].quantity = quantity
                         /\ cartCalls'[1].color = UNDEF
                         /\ cartCalls'[1].size = UNDEF
                 /\ distributionItems' = <<>>
                 /\ selectedColor' = UNDEF
                 /\ selectedSize' = UNDEF
    ]_vars

\* a distribution of two entries was handed to the cart
C23_Witness ==
  /\ mounted = "ProductDetailsPage"
  /\ lastOp.name = "handleAddToCart" /\ lastOp.outcome = "distributed"
  /\ Len(cartCalls) = 2
  /\ distributionItems = <<>>

----------------------------------------------------------------------------
\* Termination of the two fetches

\* the users list and the product load, with every remote call returning and
\* every continuation that is ready being run
SpecFetchFair ==
  /\ (InitUsers \/ InitLoad)
  /\ [][NextUsersList \/ NextLoad]_vars
  /\ WF_vars(remoteReplies)
  /\ WF_vars(fetchUsersResumes)
  /\ WF_vars(productQueryReturns)
  /\ WF_vars(corretorQueryReturns)
  /\ WF_vars(trackingSettingsReturn)
  /\ WF_vars(trackViewReturns)

\* C24: when every remote call returns, loading eventually becomes false on
\* the users page and on the product page while it is mounted, and every
\* step on which a run of fetchProductDetails returns (product error, product
\* not found, seller error, success) calls setLoading(false) last.
C24_LoadingEventuallyFalse ==
  /\ (UsersPage /\ loading) ~> ~loading
  /\ (LoadPage /\ details.present /\ details.loading)
       ~> (~details.loading \/ ~details.present)
  /\ [][ (LoadPage /\ Len(runs') < Len(runs))
         => /\ setterCalls' # <<>>
            /\ setterCalls'[Len(setterCalls')] = Set("loading", FALSE)
     ]_vars

\* a run ended in the catch after the seller query failed, and the page
\* stopped loading
C24_Witness ==
  /\ LoadPage /\ details.present
  /\ lastOp.outcome = "corretorError"
  /\ ~details.loading
  /\ runs = <<>>

----------------------------------------------------------------------------
\* What the product page renders

\* the outcomes of a run of fetchProductDetails that end it with an error
ErrorOutcomes == {"productError", "noProduct", "corretorError"}

\* C25: the product page renders the details only when loading is false,
\* error is null and product and corretor are both loaded; a missing
\* productId, a failed product query, a missing product and a failed seller
\* query each leave the mounted page on the error screen, also when the
\* product was stored before the seller query failed.
C25_DetailsOnlyWhenLoaded ==
  /\ []((LoadPage /\ details.present /\ Screen(details) = "details")
          => /\ ~details.loading
             /\ details.error = UNDEF
             /\ details.product # UNDEF
             /\ details.corretor # UNDEF)
  /\ []((LoadPage /\ details.present /\ details.productId = UNDEF)
          => Screen(details) = "error")
  /\ [][ (LoadPage /\ details'.present
            /\ lastOp'.name = "fetchProductDetails"
            /\ lastOp'.outcome \in ErrorOutcomes)
         => Screen(details') = "error"
     ]_vars

\* the seller query failed after the product had been stored, while the
\* seller of an earlier product is still held
C25_Witness ==
  /\ LoadPage /\ details.present
  /\ lastOp.outcome = "corretorError"
  /\ details.product # UNDEF /\ details.corretor # UNDEF
  /\ Screen(details) = "error"

----------------------------------------------------------------------------
\* The selection of the users page

DisplayedIds == {displayedUsers[i].id : i \in 1..Len(displayedUsers)}

\* a step of handleSelectAll, handleSelectUser or the clear control leaves
\* all displayed ids, none, or the selection with one displayed id added or
\* removed
SelectionStepsAsStated ==
  [][ (UsersPage /\ calls' = calls /\ users' = users
         /\ selectedUsers' # selectedUsers)
      => \/ selectedUsers' = DisplayedIds
         \/ selectedUsers' = {}
         \/ \E id \in DisplayedIds :
              \/ selectedUsers' = selectedUsers \cup {id}
              \/ selectedUsers' = selectedUsers \ {id}
    ]_vars

\* C26: handleSelectAll(true) selects exactly the ids of displayedUsers,
\* handleSelectAll(false) empties the selection, handleSelectUser adds or
\* removes only the given id; and in every reachable state every id in
\* selectedUsers is the id of a user present in users.
C26_SelectionWithinUsers ==
  /\ SelectionStepsAsStated
  /\ [](UsersPage
          => selectedUsers \subseteq {users[i].id : i \in 1..Len(users)})

----------------------------------------------------------------------------
\* The main item of the gallery

\* the media a product page hands to the gallery is never empty
GalleryMediaNeverEmpty ==
  /\ \A product_images \in ProductImageLists :
       Len(galleryMedia(product_images)) > 0
  /\ mounted = "ImageGallery" => Len(media) > 0

\* C27: in the gallery currentMainIndex is always a valid index of media
\* (0 <= currentMainIndex < media.length), also after the media prop has
\* been replaced by a shorter list, and the media the product page supplies
\* is never empty.
C27_MainIndexValid ==
  /\ GalleryMediaNeverEmpty
  /\ mounted = "ImageGallery"
       => (0 <= currentMainIndex /\ currentMainIndex < Len(media))

----------------------------------------------------------------------------
\* Cropper state and featured item of the media manager

\* C28: in the media manager showCropper = false implies the Idle state:
\* selectedFile is null, pendingFiles is empty and imageToRecrop is null,
\* for every interleaving of handleFileSelect, handleRecropImage,
\* handleCropComplete and handleCropCancel.
C28_ClosedCropperIsIdle ==
  (mounted = "ProductImageManager" /\ ~showCropper)
    => /\ selectedFile = <<>>
       /\ pendingFiles = <<>>
       /\ imageToRecrop = <<>>

\* the media manager started on the empty list
SpecMediaFromEmpty == InitMediaEmpty /\ [][NextMedia]_vars

\* C29: in a run of the media manager that starts from the empty list, every
\* non-empty list has exactly one featured item and the first item added to
\* an empty list is featured, whatever the order of crops, video additions,
\* setFeaturedImage calls and removals.
C29_ExactlyOneFeatured ==
  /\ [](Len(images) > 0 => Cardinality(FeaturedPositions(images)) = 1)
  /\ [][ (images = <<>> /\ Len(images') = 1) => images'[1].isFeatured ]_vars

----------------------------------------------------------------------------
\* What the pages show once every request has returned

\* the users page with its per-row actions, and the product load
SpecSettled ==
  /\ (InitUsers \/ InitLoad)
  /\ [][NextUsersList \/ NextUsersRows \/ NextLoad]_vars

\* with no handler run suspended, every listed user that the remote table
\* still holds is shown with the table's is_blocked
UsersShowRemoteBlocked ==
  (UsersPage /\ calls = <<>>)
    => \A k \in 1..Len(users) : \A j \in 1..Len(table) :
         table[j].id = users[k].id
           => users[k].is_blocked = table[j].is_blocked

\* with no fetch pending, the mounted page shows the product of the route's
\* productId
ShownProductIsCurrent ==
  (LoadPage /\ details.present /\ runs = <<>>
     /\ Screen(details) = "details")
    => details.product = details.productId

\* C30: once every in-flight request has completed (and nothing else writes
\* to the remote table), the users list shows the remote is_blocked of every
\* user and the product page shows the product of the current productId.
C30_SettledViewIsCurrent ==
  UsersShowRemoteBlocked /\ ShownProductIsCurrent

====
